---- MODULE Spec2Model ----
(***************************************************************************)
(* Repository-scoped access control and documentation pipeline of ff_docs: *)
(*   ff_docs/auth/repository_permissions.py  RepositoryPermissionManager   *)
(*   ff_docs/auth/repository_middleware.py   RepositoryScopedAuthMiddleware*)
(*   ff_docs/aggregator/enrollment.py        RepositoryEnrollment          *)
(*   ff_docs/pipeline/sync.py                ContentSyncService            *)
(*   ff_docs/server/routes/webhooks.py       handle_github_webhook         *)
(*   ff_docs/search/security_filter.py       SecureSearchEngine            *)
(*                                                                         *)
(* Python strings that the code slices, concatenates or matches against a  *)
(* prefix (user names, repository names, cache keys, URL paths) are        *)
(* sequences of one-character strings.  None and "" are both the empty     *)
(* sequence where the code only tests truthiness.  Opaque strings (role    *)
(* names, capability tokens, access tokens) are TLA+ strings.              *)
(***************************************************************************)
EXTENDS Integers, Sequences, FiniteSets, TLC

VARIABLES
    now,            \* datetime.now(UTC), in minutes
    github_org,     \* settings.github.org ("" when not configured)
    proxy_enabled,  \* settings.auth.oauth2_proxy_enabled
    cache,          \* RepositoryPermissionManager._permission_cache
    pm,             \* observation of the last Permission Manager call
    mw,             \* observation of the last middleware dispatch
    config_file,    \* the file mkdocs.yml (EnrollmentConfig.target_mkdocs_config)
    backup_file,    \* its sibling mkdocs.yml.backup
    en,             \* observation of the last two RepositoryEnrollment calls
    sync_status,    \* ContentSyncService.sync_status
    sync_call,      \* the sync_repository call in progress
    wh,             \* observation of the last webhook request
    sr,             \* observation of the last search
    tasks,          \* the enroll/unenroll calls of the processes sharing mkdocs.yml
    call            \* observation of the last call of a stateless operation

vars == <<now, github_org, proxy_enabled, cache, pm, mw, config_file, backup_file, en, sync_status, sync_call, wh, sr, tasks, call>>

\* The state of the access-control part and of the documentation part
authVars == <<now, github_org, proxy_enabled, cache, pm, mw>>

docsVars == <<config_file, backup_file, en, sync_status, sync_call, wh, sr, tasks, call>>

----------------------------------------------------------------------------
(* Bounds of the model                                                     *)

MaxTime == 15
TickStep == 5
MaxEntries == 3

(* Program constants                                                       *)

CacheTtlMinutes == 10
HTTP_OK == 200
HTTP_NOT_FOUND == 404

----------------------------------------------------------------------------
(* Strings                                                                 *)

StartsWith(s, pre) ==
    /\ Len(pre) <= Len(s)
    /\ SubSeq(s, 1, Len(pre)) = pre

EndsWith(s, suf) ==
    /\ Len(suf) <= Len(s)
    /\ SubSeq(s, Len(s) - Len(suf) + 1, Len(s)) = suf

InList(x, list) == \E i \in 1..Len(list) : list[i] = x

\* sub in s
Contains(s, sub) ==
    \E i \in 0..(Len(s) - Len(sub)) : SubSeq(s, i + 1, i + Len(sub)) = sub

LowerLetters ==
    << "a", "b", "c", "d", "e", "f", "g", "h", "i", "j", "k", "l", "m",
       "n", "o", "p", "q", "r", "s", "t", "u", "v", "w", "x", "y", "z" >>

UpperLetters ==
    << "A", "B", "C", "D", "E", "F", "G", "H", "I", "J", "K", "L", "M",
       "N", "O", "P", "Q", "R", "S", "T", "U", "V", "W", "X", "Y", "Z" >>

\* s.lower()
Lower(s) ==
    LET lower(ch) ==
            IF InList(ch, UpperLetters)
            THEN LowerLetters[CHOOSE i \in 1..Len(UpperLetters) : UpperLetters[i] = ch]
            ELSE ch
    IN  [ i \in 1..Len(s) |-> lower(s[i]) ]

\* s.title(): a letter that follows a letter is lowercased, any other letter
\* is uppercased
Title(s) ==
    LET cased(ch) == InList(ch, LowerLetters) \/ InList(ch, UpperLetters)
        upper(ch) ==
            IF InList(ch, LowerLetters)
            THEN UpperLetters[CHOOSE i \in 1..Len(LowerLetters) : LowerLetters[i] = ch]
            ELSE ch
    IN  [ i \in 1..Len(s) |->
            IF i > 1 /\ cased(s[i - 1]) THEN Lower(<< s[i] >>)[1] ELSE upper(s[i]) ]

\* isinstance(exc, classes) for the exception classes of the model
IsInstance(exc, classes) ==
    LET base == CASE exc \in { "FileNotFoundError", "PermissionError" } -> "OSError"
                  [] exc = "UnicodeDecodeError" -> "ValueError"
                  [] OTHER -> "Exception"
    IN  exc # "" /\ (exc \in classes \/ base \in classes \/ "Exception" \in classes)

----------------------------------------------------------------------------
(* Input universes                                                         *)

Usernames == { <<"a">>, <<"a", ":", "b">> }
RepoNames == { <<"c">>, <<"b", ":", "c">> }
RequiredPermissions == { "read", "triage", "write", "maintain", "admin" }
RoleStrings == { "read", "triage", "write", "maintain", "admin", "none", "owner" }

(* What GitHub answers to GET .../collaborators/{username}/permission:     *)
(* err is the exception raised by the HTTP client ("" when it returns).    *)
OkResponses ==
    { [err |-> "", status |-> HTTP_OK, permission |-> r] : r \in RoleStrings }
NotFoundResponse == [err |-> "", status |-> HTTP_NOT_FOUND, permission |-> "none"]
FailedResponses ==
    { [err |-> "", status |-> s, permission |-> "none"] : s \in {403, 500} }
      \cup { [err |-> e, status |-> 0, permission |-> "none"] :
                e \in {"HTTPStatusError", "Exception"} }
Responses == OkResponses \cup {NotFoundResponse} \cup FailedResponses

----------------------------------------------------------------------------
(* RepositoryPermissionManager                                             *)

GITHUB_ROLE_MAPPING ==
    [ read     |-> <<"repo:read">>,
      triage   |-> <<"repo:read", "repo:triage">>,
      write    |-> <<"repo:read", "repo:write">>,
      maintain |-> <<"repo:read", "repo:write", "repo:maintain">>,
      admin    |-> <<"repo:read", "repo:write", "repo:maintain", "repo:admin">> ]

\* Variant: an unknown role falls back to read access
role_permissions_default_read(github_permission) ==
    IF github_permission \in DOMAIN GITHUB_ROLE_MAPPING
    THEN GITHUB_ROLE_MAPPING[github_permission]
    ELSE <<"repo:read">>

\* GITHUB_ROLE_MAPPING.get(github_permission, [])
role_permissions(github_permission) ==
    IF github_permission \in DOMAIN GITHUB_ROLE_MAPPING
    THEN GITHUB_ROLE_MAPPING[github_permission]
    ELSE << >>

\* f"{username}:{repo_name}"
get_cache_key(username, repo_name) == username \o <<":">> \o repo_name

\* Variant: the entry is still valid at the instant it expires
is_cache_valid_inclusive(cache_entry, t) ==
    t <= cache_entry.cached_at + CacheTtlMinutes

\* datetime.now(UTC) < cached_at + timedelta(minutes=self._cache_ttl_minutes)
is_cache_valid(cache_entry, t) ==
    t < cache_entry.cached_at + CacheTtlMinutes

\* Variant: only results that grant access are cached
cache_permission_if_access(c, username, repo_name, permission_data, t) ==
    LET cache_key == get_cache_key(username, repo_name)
        entry == [ username          |-> permission_data.username,
                   repository        |-> permission_data.repository,
                   github_permission |-> permission_data.github_permission,
                   permissions       |-> permission_data.permissions,
                   has_access        |-> permission_data.has_access,
                   cached_at         |-> t ]
    IN  IF permission_data.has_access
        THEN [ k \in (DOMAIN c) \cup {cache_key} |->
                 IF k = cache_key THEN entry ELSE c[k] ]
        ELSE c

\* self._permission_cache[cache_key] = {**permission_data, "cached_at": now}
cache_permission(c, username, repo_name, permission_data, t) ==
    LET cache_key == get_cache_key(username, repo_name)
        entry == [ username          |-> permission_data.username,
                   repository        |-> permission_data.repository,
                   github_permission |-> permission_data.github_permission,
                   permissions       |-> permission_data.permissions,
                   has_access        |-> permission_data.has_access,
                   cached_at         |-> t ]
    IN  [ k \in (DOMAIN c) \cup {cache_key} |->
            IF k = cache_key THEN entry ELSE c[k] ]

\* Returns the entry when present and valid; an expired entry is deleted.
\* hit = FALSE stands for the None result.
get_cached_permission(c, username, repo_name, t) ==
    LET cache_key == get_cache_key(username, repo_name)
    IN  IF cache_key \in DOMAIN c /\ is_cache_valid(c[cache_key], t)
        THEN [ hit |-> TRUE, cache_key |-> cache_key, cache |-> c ]
        ELSE [ hit |-> FALSE, cache_key |-> cache_key,
               cache |-> [ k \in (DOMAIN c) \ {cache_key} |-> c[k] ] ]

\* Variant: a lookup that fails is reported as "no access"
get_repository_permission_denies_on_error(username, repo_name, access_token, org, resp) ==
    LET none_data == [ username |-> username, repository |-> repo_name,
                       github_permission |-> "none", permissions |-> << >>,
                       has_access |-> FALSE ]
    IN  IF org = ""
        THEN [ ok |-> TRUE, calls |-> 0, data |-> none_data ]
        ELSE IF resp.err = "" /\ resp.status = HTTP_OK
        THEN [ ok |-> TRUE, calls |-> 1,
               data |-> [ username |-> username, repository |-> repo_name,
                          github_permission |-> resp.permission,
                          permissions |-> role_permissions(resp.permission),
                          has_access |-> resp.permission # "none" ] ]
        ELSE [ ok |-> TRUE, calls |-> 1, data |-> none_data ]

\* ok = FALSE stands for the None result; calls counts the HTTP requests sent.
get_repository_permission(username, repo_name, access_token, org, resp) ==
    LET none_data == [ username |-> username, repository |-> repo_name,
                       github_permission |-> "none", permissions |-> << >>,
                       has_access |-> FALSE ]
    IN  IF org = ""
        THEN [ ok |-> FALSE, calls |-> 0, data |-> none_data ]
        ELSE IF resp.err # ""
        THEN [ ok |-> FALSE, calls |-> 1, data |-> none_data ]
        ELSE IF resp.status = HTTP_OK
        THEN [ ok |-> TRUE, calls |-> 1,
               data |-> [ username |-> username, repository |-> repo_name,
                          github_permission |-> resp.permission,
                          permissions |-> role_permissions(resp.permission),
                          has_access |-> resp.permission # "none" ] ]
        ELSE IF resp.status = HTTP_NOT_FOUND
        THEN [ ok |-> TRUE, calls |-> 1, data |-> none_data ]
        ELSE [ ok |-> FALSE, calls |-> 1, data |-> none_data ]

\* Variant: a failed lookup is answered with True
check_repository_access_fail_open(c, t, org, username, repo_name, access_token, required_permission, resp) ==
    LET cached == get_cached_permission(c, username, repo_name, t)
        fresh  == get_repository_permission(username, repo_name,
                                            access_token, org, resp)
    IN  IF cached.hit
        THEN [ ret |-> InList("repo:" \o required_permission,
                              c[cached.cache_key].permissions),
               cache |-> cached.cache,
               gh_calls |-> 0,
               source |-> "cache",
               github_permission |-> c[cached.cache_key].github_permission ]
        ELSE IF fresh.ok
        THEN [ ret |-> InList("repo:" \o required_permission,
                              fresh.data.permissions),
               cache |-> cache_permission(cached.cache, username, repo_name,
                                          fresh.data, t),
               gh_calls |-> fresh.calls,
               source |-> "github",
               github_permission |-> fresh.data.github_permission ]
        ELSE [ ret |-> TRUE,
               cache |-> cached.cache,
               gh_calls |-> fresh.calls,
               source |-> "failed",
               github_permission |-> "" ]

\* The whole of check_repository_access as a function of the manager's state
\* and of GitHub's answer: the value returned, the cache left behind, the
\* number of GitHub requests made, and what the answer was computed from.
check_repository_access(c, t, org, username, repo_name, access_token, required_permission, resp) ==
    LET cached == get_cached_permission(c, username, repo_name, t)
        fresh  == get_repository_permission(username, repo_name,
                                            access_token, org, resp)
    IN  IF cached.hit
        THEN [ ret |-> InList("repo:" \o required_permission,
                              c[cached.cache_key].permissions),
               cache |-> cached.cache,
               gh_calls |-> 0,
               source |-> "cache",
               github_permission |-> c[cached.cache_key].github_permission ]
        ELSE IF fresh.ok
        THEN [ ret |-> InList("repo:" \o required_permission,
                              fresh.data.permissions),
               cache |-> cache_permission(cached.cache, username, repo_name,
                                          fresh.data, t),
               gh_calls |-> fresh.calls,
               source |-> "github",
               github_permission |-> fresh.data.github_permission ]
        ELSE [ ret |-> FALSE,
               cache |-> cached.cache,
               gh_calls |-> fresh.calls,
               source |-> "failed",
               github_permission |-> "" ]

\* keys_to_remove = [key for key in cache if key.startswith(f"{username}:")]
clear_user_cache(c, username) ==
    [ k \in { key \in DOMAIN c : ~StartsWith(key, username \o <<":">>) } |-> c[k] ]

\* keys_to_remove = [key for key in cache if key.endswith(f":{repo_name}")]
clear_repository_cache(c, repo_name) ==
    [ k \in { key \in DOMAIN c : ~EndsWith(key, <<":">> \o repo_name) } |-> c[k] ]

----------------------------------------------------------------------------
(* RepositoryScopedAuthMiddleware                                          *)

\* Literal parts of the compiled patterns
P_DOCS_REPO == <<"/", "d", "o", "c", "s", "/", "r", "e", "p", "o", "/">>
P_API_REPOS == <<"/", "a", "p", "i", "/", "r", "e", "p", "o", "s", "/">>
P_SITE == <<"/", "s", "i", "t", "e", "/">>
P_PROJECTS == <<"/", "p", "r", "o", "j", "e", "c", "t", "s", "/">>
P_HEALTH == <<"/", "h", "e", "a", "l", "t", "h">>
P_AUTH == <<"/", "a", "u", "t", "h">>
P_DOCS == <<"/", "d", "o", "c", "s">>
P_DOCS_OVERVIEW == <<"/", "d", "o", "c", "s", "/", "o", "v", "e", "r", "v", "i", "e", "w">>
P_DOCS_GETTING_STARTED == <<"/", "d", "o", "c", "s", "/", "g", "e", "t", "t", "i", "n", "g", "-", "s", "t", "a", "r", "t", "e", "d">>
P_OPENAPI_JSON == <<"/", "o", "p", "e", "n", "a", "p", "i", ".", "j", "s", "o", "n">>
P_REDOC == <<"/", "r", "e", "d", "o", "c">>

\* self.repository_patterns, in order: each is ^<prefix>(?P<repo_name>[^/]+)/?
repository_patterns == << P_DOCS_REPO, P_API_REPOS, P_SITE, P_PROJECTS >>

\* The longest run of characters other than "/" at the start of s: [^/]*
RECURSIVE NonSlashRun(_)
NonSlashRun(s) ==
    IF s = << >> \/ Head(s) = "/" THEN << >>
    ELSE <<Head(s)>> \o NonSlashRun(Tail(s))

\* pattern.match(path) for ^<prefix>(?P<repo_name>[^/]+)/? : the repo_name
\* group, or the empty sequence when the pattern does not match.
match_repo_pattern(prefix, path) ==
    IF StartsWith(path, prefix)
    THEN NonSlashRun(SubSeq(path, Len(prefix) + 1, Len(path)))
    ELSE << >>

\* any(pattern.match(path) for pattern in self.public_patterns)
is_public_endpoint(path) ==
    \/ StartsWith(path, P_HEALTH)                    \* ^/health/?
    \/ StartsWith(path, P_AUTH)                      \* ^/auth/?
    \/ path = P_DOCS \/ path = P_DOCS \o <<"/">>     \* ^/docs/?$
    \/ StartsWith(path, P_DOCS_OVERVIEW)             \* ^/docs/overview/?
    \/ StartsWith(path, P_DOCS_GETTING_STARTED)      \* ^/docs/getting-started/?
    \/ path = P_OPENAPI_JSON                         \* ^/openapi\.json$
    \/ path = P_DOCS                                 \* ^/docs$
    \/ path = P_REDOC                                \* ^/redoc$

\* First matching repository pattern wins; << >> stands for None.
extract_repository_from_url(path) ==
    LET matching == { i \in 1..Len(repository_patterns) :
                        match_repo_pattern(repository_patterns[i], path) # << >> }
    IN  IF matching = {} THEN << >>
        ELSE match_repo_pattern(
                repository_patterns[CHOOSE i \in matching :
                                       \A j \in matching : i <= j], path)

\* The user header is read only when OAuth2-Proxy is enabled; the bearer
\* branch ends in "pass", so a bearer token never yields a username.
get_username_from_request(proxy, req) ==
    IF proxy /\ req.user_header # << >>
    THEN req.user_header
    ELSE << >>

\* An Authorization header is <<first 7 characters, the rest>>, << >> when
\* absent: auth_header.startswith("Bearer ") and auth_header[7:].
get_access_token_from_request(req) ==
    IF req.token_header # "" THEN req.token_header
    ELSE IF req.authorization # << >> /\ req.authorization[1] = "Bearer "
    THEN req.authorization[2]
    ELSE ""

get_required_permission_for_method(method) ==
    CASE method \in {"GET", "HEAD"} -> "read"
      [] method \in {"POST", "PUT", "PATCH"} -> "write"
      [] method = "DELETE" -> "admin"
      [] OTHER -> "read"

\* Variant: the permission required follows the HTTP method
validation_permission_by_method(req) ==
    get_required_permission_for_method(req.method)

\* required_permission="read"  (the argument of the call in
\* _validate_repository_access)
validation_permission(req) == "read"

----------------------------------------------------------------------------
(* A request is [path, method, user_header, token_header, authorization,   *)
(* fault]: user_header is the value of the configured OAuth2-Proxy user    *)
(* header, token_header the value of X-Auth-Request-Access-Token, and      *)
(* fault names the helper that raises a non-HTTP exception when it is      *)
(* called for this request ("" when none does).                            *)

NoCheck(c) ==
    [ ret |-> FALSE, cache |-> c, gh_calls |-> 0, source |-> "",
      github_permission |-> "" ]

\* _validate_repository_access: every exception raised inside is caught and
\* turned into False.  consulted tells whether the Permission Manager was
\* called, permission with which required_permission.
validate_repository_access(c, t, org, proxy, req, repo_name, resp) ==
    LET username == get_username_from_request(proxy, req)
        access_token == get_access_token_from_request(req)
        denied(raised) ==
            [ has_access |-> FALSE, consulted |-> FALSE, raised |-> raised,
              username |-> << >>, permission |-> "", check |-> NoCheck(c) ]
    IN  IF req.fault = "get_username_from_request" THEN denied(TRUE)
        ELSE IF req.fault = "get_access_token_from_request" THEN denied(TRUE)
        ELSE IF username = << >> THEN denied(FALSE)
        ELSE IF access_token = "" THEN denied(FALSE)
        ELSE LET res == check_repository_access(c, t, org, username, repo_name,
                            access_token, validation_permission(req), resp)
             IN  [ has_access |-> res.ret, consulted |-> TRUE,
                   raised |-> FALSE, username |-> username,
                   permission |-> validation_permission(req), check |-> res ]

NoValidation(c) ==
    [ has_access |-> FALSE, consulted |-> FALSE, raised |-> FALSE,
      username |-> << >>, permission |-> "", check |-> NoCheck(c) ]

\* Variant: the exception is re-raised instead of passing the request on
fail_open_raises(calls, h, repo_name, validated, v) ==
    [ status |-> "handler_exception",
      handler_calls |-> calls, fail_open |-> FALSE,
      repo_name |-> repo_name, validated |-> validated, v |-> v ]

\* except Exception: return await call_next(request).  calls is the number of
\* times the downstream handler has been invoked before, h what this
\* invocation produces; an exception of the handler leaves dispatch.
fail_open(calls, h, repo_name, validated, v) ==
    [ status |-> IF h = "response" THEN "response" ELSE "handler_" \o h,
      handler_calls |-> calls + 1, fail_open |-> TRUE,
      repo_name |-> repo_name, validated |-> validated, v |-> v ]

\* return await call_next(request) inside the try block: an HTTPException of
\* the handler is re-raised, any other exception reaches the fail-open
\* handler, which invokes the handler again (producing h2).
call_next_in_try(h1, h2, repo_name, validated, v) ==
    IF h1 = "exception"
    THEN fail_open(1, h2, repo_name, validated, v)
    ELSE [ status |-> IF h1 = "response" THEN "response" ELSE "handler_" \o h1,
           handler_calls |-> 1, fail_open |-> FALSE,
           repo_name |-> repo_name, validated |-> validated, v |-> v ]

\* Variant: a denied request is passed on to the handler
deny_passes(req, h1, repo_name, v) ==
    [ status |-> IF h1 = "response" THEN "response" ELSE "handler_" \o h1,
      handler_calls |-> 1, fail_open |-> FALSE,
      repo_name |-> repo_name, validated |-> TRUE, v |-> v ]

\* if not has_access: logger.warning(..., self._get_username_from_request(
\* request), ...); self._raise_repository_access_denied(repo_name)
deny(req, h1, repo_name, v) ==
    IF req.fault = "get_username_from_request"
    THEN fail_open(0, h1, repo_name, TRUE, v)
    ELSE [ status |-> "403", handler_calls |-> 0, fail_open |-> FALSE,
           repo_name |-> repo_name, validated |-> TRUE, v |-> v ]

\* RepositoryScopedAuthMiddleware.dispatch.  h1 and h2 are what the
\* downstream handler produces at its first and second invocation:
\* "response", "http_exception" or "exception".
dispatch(c, t, org, proxy, req, resp, h1, h2) ==
    LET repo_name == extract_repository_from_url(req.path)
        v == validate_repository_access(c, t, org, proxy, req, repo_name, resp)
    IN  IF req.fault = "is_public_endpoint"
        THEN fail_open(0, h1, << >>, FALSE, NoValidation(c))
        ELSE IF is_public_endpoint(req.path)
        THEN call_next_in_try(h1, h2, << >>, FALSE, NoValidation(c))
        ELSE IF req.fault = "extract_repository_from_url"
        THEN fail_open(0, h1, << >>, FALSE, NoValidation(c))
        ELSE IF repo_name = << >>
        THEN call_next_in_try(h1, h2, << >>, FALSE, NoValidation(c))
        ELSE IF ~v.has_access
        THEN deny(req, h1, repo_name, v)
        ELSE call_next_in_try(h1, h2, repo_name, TRUE, v)

----------------------------------------------------------------------------
(* RepositoryEnrollment (aggregator/enrollment.py)                         *)
(*                                                                         *)
(* A file is a record: exists, and for an existing mkdocs.yml whether its  *)
(* nav has a Projects item and the list under it.  An entry of that list   *)
(* is a one-key dict: key is the navigation title, value the page path or  *)
(* the !import directive, split into its words.                            *)

AbsentFile == [ exists |-> FALSE, has_projects |-> FALSE, projects |-> << >> ]

OverviewEntry ==
    [ key |-> <<"O", "v", "e", "r", "v", "i", "e", "w">>,
      value |-> <<"projects/index.md">> ]

\* _load_mkdocs_config: the exception it raises, "" when it returns the
\* parsed file.  fault is what reading or parsing an existing file raises.
load_mkdocs_config(file, fault) ==
    IF ~file.exists THEN "FileNotFoundError" ELSE fault

\* f"!import {clone_url}?branch={default_branch}"
build_import_url(repo_info) ==
    << "!import", repo_info.clone_url, repo_info.default_branch >>

\* Lines 84-87: the entry enroll_repository appends to the Projects section
nav_entry(repo_info, section) ==
    LET section_name == IF section # << >> THEN section ELSE Title(repo_info.name)
    IN  [ key |-> section_name, value |-> build_import_url(repo_info) ]

EnrollmentResult(ret, raised, file, backup, wrote_config, wrote_backup) ==
    [ ret |-> ret, raised |-> raised, file |-> file, backup |-> backup,
      wrote_config |-> wrote_config, wrote_backup |-> wrote_backup ]

\* _backup_config: copy mkdocs.yml over mkdocs.yml.backup if it exists
backup_config_copy(file, backup, backup_config) ==
    IF backup_config /\ file.exists THEN file ELSE backup

enroll_repository_dedup(file, backup, backup_config, repo_info, section) ==
    IF ~repo_info.has_docs
    THEN EnrollmentResult(FALSE, "", file, backup, FALSE, FALSE)
    ELSE IF load_mkdocs_config(file, "") # ""
    THEN EnrollmentResult(FALSE, load_mkdocs_config(file, ""), file, backup, FALSE, FALSE)
    ELSE
        LET projects_section ==
                IF file.has_projects THEN file.projects ELSE << OverviewEntry >>
            updated ==
                IF InList(nav_entry(repo_info, section), projects_section)
                THEN projects_section
                ELSE Append(projects_section, nav_entry(repo_info, section))
        IN  EnrollmentResult(TRUE, "",
                [ exists |-> TRUE, has_projects |-> TRUE, projects |-> updated ],
                backup_config_copy(file, backup, backup_config),
                TRUE, backup_config /\ file.exists)

\* enroll_repository(repository: RepositoryInfo, section)
enroll_repository(file, backup, backup_config, repo_info, section) ==
    IF ~repo_info.has_docs
    THEN EnrollmentResult(FALSE, "", file, backup, FALSE, FALSE)
    ELSE IF load_mkdocs_config(file, "") # ""
    THEN EnrollmentResult(FALSE, load_mkdocs_config(file, ""), file, backup, FALSE, FALSE)
    ELSE
        LET projects_section ==
                IF file.has_projects THEN file.projects ELSE << OverviewEntry >>
        IN  EnrollmentResult(TRUE, "",
                [ exists |-> TRUE, has_projects |-> TRUE,
                  projects |-> Append(projects_section, nav_entry(repo_info, section)) ],
                backup_config_copy(file, backup, backup_config),
                TRUE, backup_config /\ file.exists)

\* The entries unenroll_repository keeps
unenroll_kept(projects, repository_name) ==
    SelectSeq(projects, LAMBDA entry : ~Contains(Lower(entry.key), Lower(repository_name)))

unenroll_repository_always_saves(file, backup, backup_config, repository_name) ==
    IF load_mkdocs_config(file, "") # ""
    THEN EnrollmentResult(FALSE, load_mkdocs_config(file, ""), file, backup, FALSE, FALSE)
    ELSE
        LET kept == IF file.has_projects
                    THEN unenroll_kept(file.projects, repository_name)
                    ELSE file.projects
            removed == Len(kept) < Len(file.projects)
        IN  EnrollmentResult(removed, "",
                [ file EXCEPT !.projects = kept ],
                backup_config_copy(file, backup, backup_config),
                TRUE, backup_config /\ file.exists)

\* unenroll_repository(repository_name)
unenroll_repository(file, backup, backup_config, repository_name) ==
    IF load_mkdocs_config(file, "") # ""
    THEN EnrollmentResult(FALSE, load_mkdocs_config(file, ""), file, backup, FALSE, FALSE)
    ELSE
        LET kept == IF file.has_projects
                    THEN unenroll_kept(file.projects, repository_name)
                    ELSE file.projects
            removed == Len(kept) < Len(file.projects)
        IN  IF removed
            THEN EnrollmentResult(TRUE, "",
                     [ file EXCEPT !.projects = kept ],
                     backup_config_copy(file, backup, backup_config),
                     TRUE, backup_config /\ file.exists)
            ELSE EnrollmentResult(FALSE, "", file, backup, FALSE, FALSE)

\* list_enrolled_repositories: the "name" of each enrolled repository, which
\* is the key of its entry
list_enrolled_repositories(file) ==
    IF file.has_projects
    THEN LET imports == SelectSeq(file.projects,
                            LAMBDA entry : Len(entry.value) > 0 /\ entry.value[1] = "!import")
         IN  [ i \in 1..Len(imports) |-> imports[i].key ]
    ELSE << >>

\* get_enrolled_repositories(): the exception raised ("" if none) and the
\* names returned
get_enrolled_repositories(file, fault) ==
    [ raised |-> load_mkdocs_config(file, fault),
      names |-> IF load_mkdocs_config(file, fault) = ""
                THEN list_enrolled_repositories(file)
                ELSE << >> ]

----------------------------------------------------------------------------
(* ContentSyncService.sync_repository (pipeline/sync.py)                   *)
(*                                                                         *)
(* A call is a record: pc is the stage it is about to run, status and      *)
(* error are the fields of its SyncStatus object, raised is the exception  *)
(* that left the call.  A stage's outcome is "" or the exception it raises.*)

SyncStages ==
    << "get_enrolled_repositories", "prepare_workspace", "clone_or_update_repo",
       "process_documentation", "generate_api_documentation" >>

SyncEnded == { "returned", "raised" }

SyncCaught == { "OSError", "ValueError", "RuntimeError" }

NOT_ENROLLED == "not enrolled"

\* Lines 71-78: a fresh SyncStatus, stored before the try block is entered
sync_begin(repo_full_name, commit_sha) ==
    [ pc |-> SyncStages[1], repository |-> repo_full_name, commit_sha |-> commit_sha,
      status |-> "started", error |-> "", raised |-> "" ]

\* The status a stage that returned normally leaves, and the stage after it
sync_advance(st) ==
    CASE st.pc = "prepare_workspace" ->
            [ st EXCEPT !.pc = "clone_or_update_repo", !.status = "cloning" ]
      [] st.pc = "clone_or_update_repo" ->
            [ st EXCEPT !.pc = "process_documentation", !.status = "processing" ]
      [] st.pc = "process_documentation" ->
            [ st EXCEPT !.pc = "generate_api_documentation" ]
      [] st.pc = "generate_api_documentation" ->
            [ st EXCEPT !.pc = "returned", !.status = "completed" ]
      [] OTHER -> [ st EXCEPT !.pc = "prepare_workspace" ]

sync_step_restart(st, file, outcome) ==
    LET enrolled == get_enrolled_repositories(file, outcome)
        exc == IF st.pc = "get_enrolled_repositories" THEN enrolled.raised ELSE outcome
    IN  IF exc # ""
        THEN IF IsInstance(exc, SyncCaught)
             THEN [ st EXCEPT !.pc = "returned", !.status = "started", !.error = exc ]
             ELSE [ st EXCEPT !.pc = "raised", !.raised = exc ]
        ELSE IF st.pc = "get_enrolled_repositories" /\ ~InList(st.repository, enrolled.names)
        THEN [ st EXCEPT !.pc = "returned", !.status = "failed", !.error = NOT_ENROLLED ]
        ELSE sync_advance(st)

\* One stage of the try block of sync_repository, with its except clause
sync_step(st, file, outcome) ==
    LET enrolled == get_enrolled_repositories(file, outcome)
        exc == IF st.pc = "get_enrolled_repositories" THEN enrolled.raised ELSE outcome
    IN  IF exc # ""
        THEN IF IsInstance(exc, SyncCaught)
             THEN [ st EXCEPT !.pc = "returned", !.status = "failed", !.error = exc ]
             ELSE [ st EXCEPT !.pc = "raised", !.raised = exc ]
        ELSE IF st.pc = "get_enrolled_repositories" /\ ~InList(st.repository, enrolled.names)
        THEN [ st EXCEPT !.pc = "returned", !.status = "failed", !.error = NOT_ENROLLED ]
        ELSE sync_advance(st)

RECURSIVE sync_run(_, _, _)
sync_run(st, file, outcomes) ==
    IF st.pc \in SyncEnded
    THEN st
    ELSE CHOOSE ended \in { sync_run(next, file, outcomes) :
                              next \in { sync_step(st, file, outcomes[st.pc]) } } : TRUE

\* A whole call; outcomes gives the outcome of each stage
sync_repository(file, repo_full_name, commit_sha, outcomes) ==
    sync_run(sync_begin(repo_full_name, commit_sha), file, outcomes)

\* No call was made
IdleCall ==
    [ pc |-> "idle", repository |-> << >>, commit_sha |-> "", status |-> "",
      error |-> "", raised |-> "" ]

\* What the call leaves in self.sync_status
stored_status(st) == [ status |-> st.status, error |-> st.error ]

----------------------------------------------------------------------------
(* GitHub webhook (server/routes/webhooks.py)                              *)
(*                                                                         *)
(* The X-Hub-Signature-256 header is a pair: the scheme prefix and what    *)
(* follows it.  A digest is the triple of the algorithm, the key and the   *)
(* message it was computed from, so that two digests are equal exactly     *)
(* when key and message are.                                               *)

HTTP_UNAUTHORIZED == 401
HTTP_BAD_REQUEST == 400
HTTP_SERVER_ERROR == 500

hmac_sha256_hexdigest(secret, payload) == << "hmac-sha256", secret, payload >>

\* What follows the prefix when the header carries a non-ASCII character
NON_ASCII == << "non-ascii" >>

\* verify_github_signature: hmac.compare_digest raises TypeError when one of
\* the strings it compares is not ASCII
verify_github_signature(payload, signature, secret) ==
    IF signature[1] # "sha256="
    THEN [ raised |-> "", ret |-> FALSE ]
    ELSE IF signature[2] = NON_ASCII
    THEN [ raised |-> "TypeError", ret |-> FALSE ]
    ELSE [ raised |-> "", ret |-> signature[2] = hmac_sha256_hexdigest(secret, payload) ]

docs_patterns ==
    { <<"d", "o", "c", "s", "/">>,
      <<"*", ".", "m", "d">>,
      <<"*", ".", "r", "s", "t">>,
      <<"m", "k", "d", "o", "c", "s", ".", "y", "m", "l">>,
      <<"m", "k", "d", "o", "c", "s", ".", "y", "a", "m", "l">>,
      <<".", "f", "a", "c", "t", "f", "i", "b", "e", "r", "-", "d", "o", "c", "s", ".", "y", "m", "l">>,
      <<".", "f", "a", "c", "t", "f", "i", "b", "e", "r", "-", "d", "o", "c", "s", ".", "y", "a", "m", "l">> }

\* commit.get("added", []) + commit.get("modified", []) + commit.get("removed", [])
commit_files(commit) == commit.added \o commit.modified \o commit.removed

\* contains_docs_changes: `pattern in file_path` is a substring test
contains_docs_changes(commits) ==
    \E i \in 1..Len(commits) :
        \E j \in 1..Len(commit_files(commits[i])) :
            \E pattern \in docs_patterns :
                Contains(commit_files(commits[i])[j], pattern)

enrollment_gate_open(file, repo_full_name, fault) ==
    LET enrolled == get_enrolled_repositories(file, fault)
    IN  IF enrolled.raised # "" /\ ~IsInstance(enrolled.raised, {"ValueError", "RuntimeError"})
        THEN "raise"
        ELSE "continue"

\* Lines 186-200: the enrollment check of the handler
enrollment_gate(file, repo_full_name, fault) ==
    LET enrolled == get_enrolled_repositories(file, fault)
    IN  IF enrolled.raised # ""
        THEN IF IsInstance(enrolled.raised, {"ValueError", "RuntimeError"})
             THEN "continue"
             ELSE "raise"
        ELSE IF ~InList(repo_full_name, enrolled.names)
        THEN "ignored"
        ELSE "continue"

trigger_docs_sync_twice(file, repo_full_name, commit_sha, outcomes) ==
    [ sync_calls |-> 2, call |-> sync_repository(file, repo_full_name, commit_sha, outcomes) ]

\* Lines 224-233: trigger_docs_sync inside try/except Exception
trigger_docs_sync(file, repo_full_name, commit_sha, outcomes) ==
    [ sync_calls |-> 1, call |-> sync_repository(file, repo_full_name, commit_sha, outcomes) ]

\* Variant: a sync that raised or failed is reported as a server error
WebhookOutcome_reports_sync_failure(http, status, docs_updated, triggered, reached) ==
    IF triggered.call.pc = "raised" \/ triggered.call.status = "failed"
    THEN [ http |-> HTTP_SERVER_ERROR, status |-> "", docs_updated |-> FALSE,
           sync_calls |-> triggered.sync_calls, call |-> triggered.call, reached |-> reached ]
    ELSE [ http |-> http, status |-> status, docs_updated |-> docs_updated,
           sync_calls |-> triggered.sync_calls, call |-> triggered.call, reached |-> reached ]

WebhookOutcome(http, status, docs_updated, triggered, reached) ==
    [ http |-> http, status |-> status, docs_updated |-> docs_updated,
      sync_calls |-> triggered.sync_calls, call |-> triggered.call, reached |-> reached ]

NotTriggered == [ sync_calls |-> 0, call |-> IdleCall ]

\* handle_github_webhook: reached names the last check the request came to
handle_github_webhook(file, webhook_secret, req, outcomes) ==
    LET verified == verify_github_signature(req.body, req.signature, webhook_secret)
        body == req.body
        repo_full_name == body.repository.full_name
        commit_sha == IF body.head_commit_id # "" THEN body.head_commit_id ELSE body.after
        gate == enrollment_gate(file, repo_full_name, outcomes["get_enrolled_repositories"])
    IN  IF webhook_secret # "" /\ verified.raised # ""
        THEN WebhookOutcome(HTTP_SERVER_ERROR, "", FALSE, NotTriggered, "signature")
        ELSE IF webhook_secret # "" /\ ~verified.ret
        THEN WebhookOutcome(HTTP_UNAUTHORIZED, "", FALSE, NotTriggered, "signature")
        ELSE IF ~body.json
        THEN WebhookOutcome(HTTP_BAD_REQUEST, "", FALSE, NotTriggered, "payload")
        ELSE IF req.event_type # "push"
        THEN WebhookOutcome(HTTP_OK, "ignored", FALSE, NotTriggered, "event")
        ELSE IF body.repository.name = << >>
        THEN WebhookOutcome(HTTP_BAD_REQUEST, "", FALSE, NotTriggered, "repository")
        ELSE IF gate = "raise"
        THEN WebhookOutcome(HTTP_SERVER_ERROR, "", FALSE, NotTriggered, "enrollment")
        ELSE IF gate = "ignored"
        THEN WebhookOutcome(HTTP_OK, "ignored", FALSE, NotTriggered, "enrollment")
        ELSE IF ~contains_docs_changes(body.commits)
        THEN WebhookOutcome(HTTP_OK, "ignored", FALSE, NotTriggered, "docs_changes")
        ELSE WebhookOutcome(HTTP_OK, "processed", TRUE,
                 trigger_docs_sync(file, repo_full_name, commit_sha, outcomes),
                 "sync")

----------------------------------------------------------------------------
(* SecureSearchEngine (search/security_filter.py)                          *)
(*                                                                         *)
(* A session is a record: present is false for None; has_credentials says  *)
(* whether the object has the attributes username and access_token that    *)
(* the engine reads.  env holds what one search reads: time, organisation, *)
(* session, requested repositories, enrolled names, GitHub's answer for    *)
(* each name and the names for which the permission check raises.          *)

DefaultLimit == 50

\* The outcome of the access check of the i-th enrolled repository
access_check(c, env, i) ==
    IF ~env.session.has_credentials
    THEN [ outcome |-> "raised", cache |-> c ]
    ELSE IF env.names[i] \in env.raising
    THEN [ outcome |-> "raised", cache |-> c ]
    ELSE LET res == check_repository_access(c, env.t, env.org, env.session.username,
                        env.names[i], env.session.access_token, "read",
                        env.answers[env.names[i]])
         IN  [ outcome |-> IF res.ret THEN "true" ELSE "false", cache |-> res.cache ]

accessible_step_fail_open(acc, env, i) ==
    IF env.requested # << >> /\ ~InList(env.names[i], env.requested)
    THEN acc
    ELSE LET checked(chk) ==
                 [ cache |-> chk.cache,
                   accessible |-> IF chk.outcome \in { "true", "raised" }
                                  THEN Append(acc.accessible, env.names[i])
                                  ELSE acc.accessible,
                   checks |-> Append(acc.checks, [ repo |-> env.names[i], outcome |-> chk.outcome ]) ]
         IN  CHOOSE next \in { checked(chk) : chk \in { access_check(acc.cache, env, i) } } : TRUE

\* Lines 148-174: one turn of the loop over the enrolled repositories
accessible_step(acc, env, i) ==
    IF env.requested # << >> /\ ~InList(env.names[i], env.requested)
    THEN acc
    ELSE LET checked(chk) ==
                 [ cache |-> chk.cache,
                   accessible |-> IF chk.outcome = "true"
                                  THEN Append(acc.accessible, env.names[i])
                                  ELSE acc.accessible,
                   checks |-> Append(acc.checks, [ repo |-> env.names[i], outcome |-> chk.outcome ]) ]
         IN  CHOOSE next \in { checked(chk) : chk \in { access_check(acc.cache, env, i) } } : TRUE

RECURSIVE accessible_loop(_, _, _)
accessible_loop(acc, env, i) ==
    IF i > Len(env.names)
    THEN acc
    ELSE CHOOSE done \in { accessible_loop(next, env, i + 1) :
                             next \in { accessible_step(acc, env, i) } } : TRUE

\* _get_accessible_repositories: the exception that leaves it ("" if none),
\* the accessible names, the checks made and the cache they leave
get_accessible_repositories(c, env, lookup_raised) ==
    LET none == [ cache |-> c, accessible |-> << >>, checks |-> << >> ]
        acc == accessible_loop(none, env, 1)
    IN  IF ~env.session.present
        THEN [ raised |-> "" ] @@ none
        ELSE IF lookup_raised # ""
        THEN [ raised |-> lookup_raised ] @@ none
        ELSE IF ~env.session.has_credentials
        THEN [ raised |-> "AttributeError" ] @@ acc
        ELSE [ raised |-> "" ] @@ acc

\* list.sort(key=score, reverse=True): stable, descending
sort_by_score(results) ==
    LET rank(k) == 1 + Cardinality({ j \in 1..Len(results) :
                        \/ results[j].score > results[k].score
                        \/ results[j].score = results[k].score /\ j < k })
    IN  [ r \in 1..Len(results) |->
            results[CHOOSE k \in 1..Len(results) : rank(k) = r] ]

\* _perform_search: two placeholder results for each of the first three
\* accessible repositories, scores in tenths, sorted
perform_search(accessible_repos) ==
    LET n == IF Len(accessible_repos) < 3 THEN Len(accessible_repos) ELSE 3
    IN  sort_by_score(
            [ k \in 1..(2 * n) |->
                [ repository |-> accessible_repos[(k + 1) \div 2],
                  section |-> IF k % 2 = 1 THEN "Guide" ELSE "API",
                  score |-> IF k % 2 = 1 THEN 9 - ((k + 1) \div 2 - 1)
                                         ELSE 8 - ((k + 1) \div 2 - 1) ] ])

filter_results_by_access(results, session, accessible_repos) ==
    IF ~session.present
    THEN << >>
    ELSE SelectSeq(results, LAMBDA result : InList(result.repository, accessible_repos))

\* results[max(0, offset) : max(0, offset) + limit], limit >= 0
paginate_results(results, offset, limit) ==
    LET start_idx == IF offset > 0 THEN offset ELSE 0
        end_idx == IF start_idx + limit < Len(results) THEN start_idx + limit ELSE Len(results)
    IN  SubSeq(results, start_idx + 1, end_idx)

\* SecureSearchEngine.search
search(c, env, query, lookup_raised) ==
    LET response(got) ==
            LET raw_results == perform_search(got.accessible)
                filtered_results ==
                    filter_results_by_access(raw_results, env.session, got.accessible)
                empty == [ raised |-> got.raised, results |-> << >>, total_results |-> 0,
                           filtered_results |-> 0, repositories_searched |-> << >>,
                           cache |-> got.cache, checks |-> got.checks ]
            IN  IF got.raised # "" \/ got.accessible = << >>
                THEN empty
                ELSE [ empty EXCEPT
                         !.results = paginate_results(filtered_results, query.offset, query.limit),
                         !.total_results = Len(raw_results),
                         !.filtered_results = Len(filtered_results),
                         !.repositories_searched = got.accessible ]
    IN  CHOOSE res \in { response(got) :
                           got \in { get_accessible_repositories(c, env, lookup_raised) } } : TRUE

----------------------------------------------------------------------------
(* MarkdownLinkRewriter (pipeline/rewriter.py)                             *)
(*                                                                         *)
(* Content, URLs and paths are sequences of characters.  A rule is a       *)
(* LinkRewriteRule record; rewrite_rules maps repository names to rules.   *)
(* cwd is the working directory of the process, which Path.resolve() puts  *)
(* in front of a relative path; the file system holds no symbolic links.   *)

\* The first index j >= i with s[j] in chars, 0 when there is none
Find(s, chars, i) ==
    LET found == { j \in i..Len(s) : s[j] \in chars }
    IN  IF found = {} THEN 0 ELSE CHOOSE j \in found : \A k \in found : j <= k

\* s.split(sep)
RECURSIVE SplitOn(_, _)
SplitOn(s, sep) ==
    LET j == Find(s, { sep }, 1)
    IN  IF j = 0 THEN << s >>
        ELSE << SubSeq(s, 1, j - 1) >> \o SplitOn(SubSeq(s, j + 1, Len(s)), sep)

\* RELATIVE_LINK_PATTERN.match(url): ^(?!https?://|mailto:|#)([^/].*) with
\* re.IGNORECASE
relative_link(url) ==
    /\ url # << >>
    /\ url[1] # "/"
    /\ ~StartsWith(Lower(url), <<"h", "t", "t", "p", ":", "/", "/">>)
    /\ ~StartsWith(Lower(url), <<"h", "t", "t", "p", "s", ":", "/", "/">>)
    /\ ~StartsWith(Lower(url), <<"m", "a", "i", "l", "t", "o", ":">>)
    /\ url[1] # "#"

\* _resolve_relative_path: the parts of (source_dir / relative_path).resolve(),
\* source_dir given by its parts
resolve_relative_path(cwd, source_dir, relative_path) ==
    LET rel == IF StartsWith(relative_path, <<".", "/">>)
               THEN SubSeq(relative_path, 3, Len(relative_path))
               ELSE relative_path
        joined == IF StartsWith(rel, <<"/">>)
                  THEN SplitOn(rel, "/")
                  ELSE SplitOn(cwd, "/") \o source_dir \o SplitOn(rel, "/")
        RECURSIVE resolve(_, _)
        resolve(stack, parts) ==
            IF parts = << >> THEN stack
            ELSE IF Head(parts) \in { << >>, <<".">> }
            THEN resolve(stack, Tail(parts))
            ELSE IF Head(parts) = <<".", ".">>
            THEN resolve(SubSeq(stack, 1, Len(stack) - 1), Tail(parts))
            ELSE resolve(Append(stack, Head(parts)), Tail(parts))
    IN  resolve(<< >>, joined)

\* _convert_to_unified_path, for the parts of an absolute resolved path.
\* urljoin(base_path, reference) for a reference that is a relative path
\* without scheme or dot segments: the reference replaces what follows the
\* last "/" of base_path.
convert_to_unified_path(resolved_path, rule) ==
    LET RECURSIVE join(_)
        join(parts) ==
            IF parts = << >> THEN << >>
            ELSE IF Len(parts) = 1 THEN Head(parts)
            ELSE Head(parts) \o <<"/">> \o join(Tail(parts))
        path_str == <<"/">> \o join(resolved_path)
        without_docs ==
            IF StartsWith(path_str, rule.docs_dir \o <<"/">>)
            THEN SubSeq(path_str, Len(rule.docs_dir) + 2, Len(path_str))
            ELSE IF StartsWith(path_str, rule.docs_dir)
            THEN SubSeq(path_str, Len(rule.docs_dir) + 1, Len(path_str))
            ELSE path_str
        without_ext ==
            IF EndsWith(without_docs, <<".", "m", "d">>)
            THEN SubSeq(without_docs, 1, Len(without_docs) - 3) \o <<"/">>
            ELSE IF EndsWith(without_docs, <<".", "r", "s", "t">>)
            THEN SubSeq(without_docs, 1, Len(without_docs) - 4) \o <<"/">>
            ELSE without_docs
        first == Find(without_ext, { without_ext[i] : i \in 1..Len(without_ext) } \ { "/" }, 1)
        reference == IF first = 0 THEN << >>
                     ELSE SubSeq(without_ext, first, Len(without_ext))
        slashes == { i \in 1..Len(rule.base_path) : rule.base_path[i] = "/" }
        last_slash == IF slashes = {} THEN 0
                      ELSE CHOOSE i \in slashes : \A k \in slashes : k <= i
        unified_path == IF reference = << >> THEN rule.base_path
                        ELSE SubSeq(rule.base_path, 1, last_slash) \o reference
        name == SplitOn(unified_path, "/")[Len(SplitOn(unified_path, "/"))]
    IN  IF ~EndsWith(unified_path, <<"/">>) /\ ~InList(".", name)
        THEN unified_path \o <<"/">>
        ELSE unified_path

\* _rewrite_url
rewrite_url(original_url, rule, source_file_path, cwd) ==
    LET hash == Find(original_url, { "#" }, 1)
        base_url == IF hash = 0 THEN original_url ELSE SubSeq(original_url, 1, hash - 1)
        anchor == IF hash = 0 THEN << >> ELSE SubSeq(original_url, hash, Len(original_url))
        mark == Find(base_url, { "?" }, 1)
        path_part == IF mark = 0 THEN base_url ELSE SubSeq(base_url, 1, mark - 1)
        query == IF mark = 0 THEN << >> ELSE SubSeq(base_url, mark, Len(base_url))
        source_parts == SelectSeq(SplitOn(source_file_path, "/"),
                                  LAMBDA part : part \notin { << >>, <<".">> })
        source_dir == SubSeq(source_parts, 1, Len(source_parts) - 1)
        unified_path == convert_to_unified_path(
                            resolve_relative_path(cwd, source_dir, path_part), rule)
    IN  unified_path
            \o (IF rule.preserve_query_params THEN query ELSE << >>)
            \o (IF rule.preserve_anchors THEN anchor ELSE << >>)

\* MARKDOWN_LINK_PATTERN.sub(replace_link, content), the pattern being
\* \[([^\]]*)\]\(([^)]+)\): at each "[" the text runs to the first "]", which
\* "(" must follow, and the url runs to the first ")" and is not empty
rewrite_inline_links(content, rule, source_file_path, cwd) ==
    LET RECURSIVE sub(_)
        sub(i) ==
            IF i > Len(content) THEN << >>
            ELSE LET close == IF content[i] = "[" THEN Find(content, { "]" }, i + 1) ELSE 0
                     open == IF close > 0 /\ close < Len(content) /\ content[close + 1] = "("
                             THEN close + 1 ELSE 0
                     end == IF open > 0 THEN Find(content, { ")" }, open + 1) ELSE 0
                     text == SubSeq(content, i + 1, close - 1)
                     url == SubSeq(content, open + 1, end - 1)
                 IN  IF end > open + 1
                     THEN (IF relative_link(url)
                           THEN <<"[">> \o text \o <<"]", "(">>
                                  \o rewrite_url(url, rule, source_file_path, cwd) \o <<")">>
                           ELSE SubSeq(content, i, end))
                          \o sub(end + 1)
                     ELSE << content[i] >> \o sub(i + 1)
    IN  sub(1)

\* MARKDOWN_REF_LINK_PATTERN.sub(replace_ref_link, content), the pattern
\* being \[([^\]]*)\]:\s*([^\s]+): after "]:" whitespace is skipped and the
\* url runs to the next whitespace or to the end
rewrite_reference_links(content, rule, source_file_path, cwd) ==
    LET space == { " ", "\n", "\t" }
        other == { content[i] : i \in 1..Len(content) } \ space
        RECURSIVE sub(_)
        sub(i) ==
            IF i > Len(content) THEN << >>
            ELSE LET close == IF content[i] = "[" THEN Find(content, { "]" }, i + 1) ELSE 0
                     colon == IF close > 0 /\ close < Len(content) /\ content[close + 1] = ":"
                              THEN close + 1 ELSE 0
                     start == IF colon > 0 THEN Find(content, other, colon + 1) ELSE 0
                     stop == IF start > 0 THEN Find(content, space, start) ELSE 0
                     end == IF stop = 0 THEN Len(content) ELSE stop - 1
                     ref == SubSeq(content, i + 1, close - 1)
                     url == SubSeq(content, start, end)
                 IN  IF start > 0
                     THEN (IF relative_link(url)
                           THEN <<"[">> \o ref \o <<"]", ":", " ">>
                                  \o rewrite_url(url, rule, source_file_path, cwd)
                           ELSE SubSeq(content, i, end))
                          \o sub(end + 1)
                     ELSE << content[i] >> \o sub(i + 1)
    IN  sub(1)

\* rewrite_file_content
rewrite_file_content(rewrite_rules, content, source_repo, source_file_path, cwd) ==
    IF source_repo \notin DOMAIN rewrite_rules
    THEN content
    ELSE rewrite_reference_links(
             rewrite_inline_links(content, rewrite_rules[source_repo], source_file_path, cwd),
             rewrite_rules[source_repo], source_file_path, cwd)

----------------------------------------------------------------------------
(* GitHubClient.check_repository_documentation                             *)
(* (aggregator/github_client.py)                                           *)

\* The paths probed, in order
docs_indicators ==
    << <<"d", "o", "c", "s", "/">>,
       <<"d", "o", "c", "u", "m", "e", "n", "t", "a", "t", "i", "o", "n", "/">>,
       <<"d", "o", "c", "/">>,
       <<"m", "k", "d", "o", "c", "s", ".", "y", "m", "l">>,
       <<"m", "k", "d", "o", "c", "s", ".", "y", "a", "m", "l">>,
       <<".", "r", "e", "a", "d", "t", "h", "e", "d", "o", "c", "s", ".", "y", "m", "l">>,
       <<".", "r", "e", "a", "d", "t", "h", "e", "d", "o", "c", "s", ".", "y", "a", "m", "l">> >>

\* responses[i] is GitHub's answer to the contents request for
\* docs_indicators[i]: "list" (200 with a JSON list, a directory), "object"
\* (200 with a JSON object, a file), "not_found" (any other status) or
\* "error" (httpx.RequestError).  Every indicator is probed; the loop has no
\* break.
check_repository_documentation(repo_info, responses) ==
    LET RECURSIVE probe(_, _)
        probe(info, i) ==
            IF i > Len(docs_indicators) THEN info
            ELSE IF responses[i] = "list" /\ EndsWith(docs_indicators[i], <<"/">>)
            THEN probe([ info EXCEPT !.has_docs = TRUE,
                                     !.docs_path = docs_indicators[i] ], i + 1)
            ELSE IF responses[i] = "object"
                    /\ Contains(docs_indicators[i], <<"m", "k", "d", "o", "c", "s", ".", "y">>)
            THEN probe([ info EXCEPT !.has_docs = TRUE,
                                     !.mkdocs_config = docs_indicators[i] ], i + 1)
            ELSE probe(info, i + 1)
    IN  probe(repo_info, 1)

----------------------------------------------------------------------------
(* AuthenticationMiddleware.get_current_user (auth/middleware.py)          *)

\* OAuth2ProxyHandler.extract_user_from_headers; None is [ ok |-> FALSE ].
\* headers holds the values of the configured user and email headers,
\* << >> when the header is absent or empty.  The teams and permissions of
\* the session come from the groups header and do not decide whether there
\* is a session.
extract_user_from_headers(proxy, headers) ==
    IF ~proxy THEN [ ok |-> FALSE ]
    ELSE IF headers.user = << >> THEN [ ok |-> FALSE ]
    ELSE [ ok |-> TRUE, username |-> headers.user, email |-> headers.email,
           session_id |-> <<"o", "a", "u", "t", "h", "2", "-", "p", "r", "o", "x", "y", "-">> \o headers.user ]

\* JWTHandler.verify_token at time t.  A token is the key it was signed
\* with and its claims.  jwt.decode raises InvalidTokenError on a signature
\* made with another key, on another audience and on an exp claim not
\* after t; a missing exp is read as 0, the epoch.
verify_token(token, t) ==
    IF \/ token.signed_with # "secret_key"
       \/ token.aud # "ff-docs-api"
       \/ token.has_exp /\ token.exp <= t
    THEN [ ok |-> FALSE ]
    ELSE IF ~token.has_sub THEN [ ok |-> FALSE ]
    ELSE IF ~token.has_exp \/ token.exp < t THEN [ ok |-> FALSE ]
    ELSE [ ok |-> TRUE, username |-> token.sub, exp |-> token.exp,
           session_id |-> token.session_id ]

get_current_user_bearer_first(proxy, headers, credentials, t) ==
    LET session == extract_user_from_headers(proxy, headers)
        token_data == verify_token(credentials.token, t)
    IN  IF credentials.present /\ token_data.ok
        THEN [ status |-> HTTP_OK, via |-> "jwt", verify_token_calls |-> 1,
               session |-> [ ok |-> TRUE, username |-> token_data.username,
                             email |-> << >>, session_id |-> token_data.session_id ] ]
        ELSE IF proxy /\ session.ok
        THEN [ status |-> HTTP_OK, via |-> "oauth2_proxy",
               verify_token_calls |-> IF credentials.present THEN 1 ELSE 0,
               session |-> session ]
        ELSE [ status |-> 401, detail |-> "Authentication required",
               verify_token_calls |-> IF credentials.present THEN 1 ELSE 0 ]

\* credentials is what HTTPBearer(auto_error=False) hands over: present with
\* the bearer token, or absent.  _create_session_from_token builds the
\* session from the verified token data with an empty email.
get_current_user(proxy, headers, credentials, t) ==
    LET session == extract_user_from_headers(proxy, headers)
        token_data == verify_token(credentials.token, t)
    IN  IF proxy /\ session.ok
        THEN [ status |-> HTTP_OK, via |-> "oauth2_proxy", verify_token_calls |-> 0,
               session |-> session ]
        ELSE IF credentials.present /\ token_data.ok
        THEN [ status |-> HTTP_OK, via |-> "jwt", verify_token_calls |-> 1,
               session |-> [ ok |-> TRUE, username |-> token_data.username,
                             email |-> << >>, session_id |-> token_data.session_id ] ]
        ELSE [ status |-> 401, detail |-> "Authentication required",
               verify_token_calls |-> IF credentials.present THEN 1 ELSE 0 ]

----------------------------------------------------------------------------
(* State machine                                                           *)

PmInit ==
    [ op |-> "init", username |-> << >>, repo_name |-> << >>,
      required_permission |-> "", at |-> 0, had_entry |-> FALSE,
      entry_cached_at |-> 0, ret |-> FALSE, gh_calls |-> 0, source |-> "",
      github_permission |-> "", resp_failed |-> FALSE, before |-> << >> ]

MwInit ==
    [ op |-> "init" ]

NoRepository ==
    [ name |-> << >>, full_name |-> << >>, clone_url |-> "",
      default_branch |-> "", has_docs |-> FALSE ]

EnCall(op, repo_info, section, name, res, file) ==
    [ op |-> op, repo_info |-> repo_info, section |-> section, name |-> name,
      ret |-> res.ret, raised |-> res.raised, wrote_config |-> res.wrote_config,
      wrote_backup |-> res.wrote_backup, before |-> file ]

EnInit ==
    LET none == [ op |-> "init", repo_info |-> NoRepository, section |-> << >>,
                  name |-> << >>, ret |-> FALSE, raised |-> "", wrote_config |-> FALSE,
                  wrote_backup |-> FALSE, before |-> AbsentFile ]
    IN  [ last |-> none, prev |-> none, before_backup |-> AbsentFile ]

AuthInit ==
    /\ now = 0
    /\ github_org \in {"", "factfiber"}
    /\ proxy_enabled \in BOOLEAN
    /\ cache = << >>
    /\ pm = PmInit
    /\ mw = MwInit

\* mkdocs.yml is one of configs; no sync run, no request served
DocsInit(configs) ==
    /\ config_file \in configs
    /\ backup_file = AbsentFile
    /\ en = EnInit
    /\ sync_status = << >>
    /\ sync_call = IdleCall
    /\ wh = [ op |-> "init" ]
    /\ sr = [ op |-> "init" ]
    /\ tasks = << >>
    /\ call = [ op |-> "init" ]

Init ==
    /\ AuthInit
    /\ DocsInit({ AbsentFile })

\* The documentation part alone, behind a configured organisation
InitDocs(configs) ==
    /\ AuthInit
    /\ proxy_enabled
    /\ github_org # ""
    /\ DocsInit(configs)

\* What a call of check_repository_access leaves to observe.
PmObservation(c, t, org, username, repo_name, required_permission, resp, res) ==
    LET key == get_cache_key(username, repo_name)
    IN  [ op |-> "check", username |-> username, repo_name |-> repo_name,
          required_permission |-> required_permission, at |-> t,
          had_entry |-> key \in DOMAIN c,
          entry_cached_at |-> IF key \in DOMAIN c THEN c[key].cached_at ELSE 0,
          ret |-> res.ret, gh_calls |-> res.gh_calls, source |-> res.source,
          github_permission |-> res.github_permission,
          resp_failed |-> org = "" \/ resp \in FailedResponses,
          before |-> << >> ]

\* Time passes.
Tick ==
    /\ now + TickStep <= MaxTime
    /\ now' = now + TickStep
    /\ UNCHANGED <<github_org, proxy_enabled, cache, pm, mw>>
    /\ UNCHANGED docsVars

CheckRepositoryAccess(username, repo_name, access_token, required_permission, resp) ==
    LET res == check_repository_access(cache, now, github_org, username,
                   repo_name, access_token, required_permission, resp)
    IN  /\ cache' = res.cache
        /\ pm' = PmObservation(cache, now, github_org, username, repo_name,
                               required_permission, resp, res)
        /\ UNCHANGED <<now, github_org, proxy_enabled, mw>>
        /\ UNCHANGED docsVars

ClearUserCache(username) ==
    /\ cache' = clear_user_cache(cache, username)
    /\ pm' = [ PmInit EXCEPT !.op = "clear_user_cache", !.username = username,
                             !.at = now, !.before = cache ]
    /\ UNCHANGED <<now, github_org, proxy_enabled, mw>>
    /\ UNCHANGED docsVars

ClearRepositoryCache(repo_name) ==
    /\ cache' = clear_repository_cache(cache, repo_name)
    /\ pm' = [ PmInit EXCEPT !.op = "clear_repository_cache",
                             !.repo_name = repo_name, !.at = now,
                             !.before = cache ]
    /\ UNCHANGED <<now, github_org, proxy_enabled, mw>>
    /\ UNCHANGED docsVars

Dispatch(req, resp, h1, h2) ==
    LET d == dispatch(cache, now, github_org, proxy_enabled, req, resp, h1, h2)
    IN  /\ cache' = d.v.check.cache
        /\ pm' = IF d.v.consulted
                 THEN PmObservation(cache, now, github_org, d.v.username,
                                    d.repo_name, d.v.permission, resp, d.v.check)
                 ELSE pm
        /\ mw' = [ op |-> "dispatch", req |-> req, status |-> d.status,
                   handler_calls |-> d.handler_calls, fail_open |-> d.fail_open,
                   repo_name |-> d.repo_name, validated |-> d.validated,
                   consulted |-> d.v.consulted, raised |-> d.v.raised,
                   permission |-> d.v.permission, has_access |-> d.v.has_access,
                   granted_role |-> d.v.check.github_permission, h1 |-> h1 ]
        /\ UNCHANGED <<now, github_org, proxy_enabled>>
        /\ UNCHANGED docsVars

\* enroll_repository(repo_info, section) on mkdocs.yml
EnrollRepository(backup_config, repo_info, section) ==
    LET res == enroll_repository(config_file, backup_file, backup_config, repo_info, section)
    IN  /\ Len(config_file.projects) < MaxEntries
        /\ config_file' = res.file
        /\ backup_file' = res.backup
        /\ en' = [ last |-> EnCall("enroll", repo_info, section, << >>, res, config_file),
                   prev |-> en.last, before_backup |-> backup_file ]
        /\ UNCHANGED <<sync_status, sync_call, wh, sr>>
        /\ UNCHANGED authVars
        /\ UNCHANGED <<tasks, call>>

\* unenroll_repository(repository_name) on mkdocs.yml
UnenrollRepository(backup_config, repository_name) ==
    LET res == unenroll_repository(config_file, backup_file, backup_config, repository_name)
    IN  /\ config_file' = res.file
        /\ backup_file' = res.backup
        /\ en' = [ last |-> EnCall("unenroll", NoRepository, << >>, repository_name, res, config_file),
                   prev |-> en.last, before_backup |-> backup_file ]
        /\ UNCHANGED <<sync_status, sync_call, wh, sr>>
        /\ UNCHANGED authVars
        /\ UNCHANGED <<tasks, call>>

\* sync_repository is called: the fresh status replaces the stored one
SyncStart(repo_full_name, commit_sha) ==
    /\ sync_call.pc \in SyncEnded \cup {"idle"}
    /\ sync_call' = sync_begin(repo_full_name, commit_sha)
    /\ sync_status' = (repo_full_name :> stored_status(sync_call')) @@ sync_status
    /\ UNCHANGED <<config_file, backup_file, en, wh, sr>>
    /\ UNCHANGED authVars
    /\ UNCHANGED <<tasks, call>>

\* The call in progress runs its next stage
SyncStage(outcome) ==
    /\ sync_call.pc \notin SyncEnded \cup {"idle"}
    /\ sync_call' = sync_step(sync_call, config_file, outcome)
    /\ sync_status' = [ sync_status EXCEPT ![sync_call.repository] = stored_status(sync_call') ]
    /\ UNCHANGED <<config_file, backup_file, en, wh, sr>>
    /\ UNCHANGED authVars
    /\ UNCHANGED <<tasks, call>>

\* POST /webhooks/github; the sync it triggers runs to its end inside the
\* request
Webhook(webhook_secret, req, outcomes) ==
    LET res == handle_github_webhook(config_file, webhook_secret, req, outcomes)
        repo_full_name == req.body.repository.full_name
    IN  /\ sync_call.pc \in SyncEnded \cup {"idle"}
        /\ wh' = [ op |-> "webhook", webhook_secret |-> webhook_secret, req |-> req,
                   outcomes |-> outcomes, http |-> res.http, status |-> res.status,
                   docs_updated |-> res.docs_updated, sync_calls |-> res.sync_calls,
                   reached |-> res.reached, call |-> res.call,
                   enrolled_before |-> en.last ]
        /\ sync_call' = IF res.sync_calls > 0 THEN res.call ELSE sync_call
        /\ sync_status' = IF res.sync_calls > 0
                          THEN (repo_full_name :> stored_status(res.call)) @@ sync_status
                          ELSE sync_status
        /\ UNCHANGED <<config_file, backup_file, en, sr>>
        /\ UNCHANGED authVars
        /\ UNCHANGED <<tasks, call>>

\* contains_docs_changes(commits), called on its own
ContainsDocsChanges(commits) ==
    /\ wh' = [ op |-> "contains_docs_changes", commits |-> commits,
               ret |-> contains_docs_changes(commits) ]
    /\ UNCHANGED <<config_file, backup_file, en, sync_status, sync_call, sr>>
    /\ UNCHANGED authVars
    /\ UNCHANGED <<tasks, call>>

\* SecureSearchEngine.search(query, user_session); answers and raising are
\* what GitHub answers and which checks raise during this search
Search(session, query, answers, raising) ==
    LET enrolled == get_enrolled_repositories(config_file, "")
        env == [ t |-> now, org |-> github_org, session |-> session,
                 requested |-> query.repositories, names |-> enrolled.names,
                 answers |-> answers, raising |-> raising ]
    IN  \E res \in { search(cache, env, query, enrolled.raised) } :
            /\ cache' = res.cache
            /\ sr' = [ op |-> "search", session |-> session, query |-> query,
                       raised |-> res.raised, results |-> res.results,
                       total_results |-> res.total_results,
                       filtered_results |-> res.filtered_results,
                       repositories_searched |-> res.repositories_searched,
                       checks |-> res.checks ]
            /\ UNCHANGED <<now, github_org, proxy_enabled, pm, mw>>
            /\ UNCHANGED <<config_file, backup_file, en, sync_status, sync_call, wh>>
            /\ UNCHANGED <<tasks, call>>

\* enroll_repository or unenroll_repository of process p, up to the point
\* where it has loaded mkdocs.yml and changed the configuration in memory.
\* A call that writes nothing ends here.
LoadConfig(p, op, backup_config, repo_info, section, repository_name) ==
    LET res == IF op = "enroll"
               THEN enroll_repository(config_file, backup_file, backup_config, repo_info, section)
               ELSE unenroll_repository(config_file, backup_file, backup_config, repository_name)
    IN  /\ IF p \in DOMAIN tasks THEN tasks[p].pc = "done" ELSE TRUE
        /\ Len(config_file.projects) < MaxEntries
        /\ tasks' = (p :> [ pc |-> IF res.wrote_config THEN "loaded" ELSE "done",
                            op |-> op, backup_config |-> backup_config,
                            repo_info |-> repo_info, section |-> section,
                            name |-> repository_name, ret |-> res.ret,
                            loaded |-> config_file, mkdocs_config |-> res.file,
                            found |-> config_file ]) @@ tasks
        /\ UNCHANGED <<config_file, backup_file, en, sync_status, sync_call, wh, sr, call>>
        /\ UNCHANGED authVars

\* Variant: the configuration is loaded again at the moment it is saved
SaveConfig_reloads(p) ==
    /\ p \in DOMAIN tasks
    /\ tasks[p].pc = "loaded"
    /\ backup_file' = backup_config_copy(config_file, backup_file, tasks[p].backup_config)
    /\ config_file' =
           IF tasks[p].op = "enroll"
           THEN enroll_repository(config_file, backup_file, tasks[p].backup_config,
                                  tasks[p].repo_info, tasks[p].section).file
           ELSE unenroll_repository(config_file, backup_file, tasks[p].backup_config,
                                    tasks[p].name).file
    /\ tasks' = [ tasks EXCEPT ![p].pc = "done", ![p].found = config_file ]
    /\ UNCHANGED <<en, sync_status, sync_call, wh, sr, call>>
    /\ UNCHANGED authVars

\* The rest of the call of process p: _backup_config() and
\* _save_mkdocs_config(mkdocs_config).  found is the file it overwrites.
SaveConfig(p) ==
    /\ p \in DOMAIN tasks
    /\ tasks[p].pc = "loaded"
    /\ backup_file' = backup_config_copy(config_file, backup_file, tasks[p].backup_config)
    /\ config_file' = tasks[p].mkdocs_config
    /\ tasks' = [ tasks EXCEPT ![p].pc = "done", ![p].found = config_file ]
    /\ UNCHANGED <<en, sync_status, sync_call, wh, sr, call>>
    /\ UNCHANGED authVars

RewriteFileContent(rewrite_rules, content, source_repo, source_file_path, cwd) ==
    /\ call' = [ op |-> "rewrite_file_content", rewrite_rules |-> rewrite_rules,
                 content |-> content, source_repo |-> source_repo,
                 source_file_path |-> source_file_path, cwd |-> cwd,
                 ret |-> rewrite_file_content(rewrite_rules, content, source_repo,
                                              source_file_path, cwd) ]
    /\ UNCHANGED <<config_file, backup_file, en, sync_status, sync_call, wh, sr, tasks>>
    /\ UNCHANGED authVars

CheckRepositoryDocumentation(repo_info, responses) ==
    /\ call' = [ op |-> "check_repository_documentation", repo_info |-> repo_info,
                 responses |-> responses,
                 ret |-> check_repository_documentation(repo_info, responses) ]
    /\ UNCHANGED <<config_file, backup_file, en, sync_status, sync_call, wh, sr, tasks>>
    /\ UNCHANGED authVars

GetCurrentUser(headers, credentials) ==
    /\ call' = [ op |-> "get_current_user", headers |-> headers,
                 credentials |-> credentials,
                 proxy |-> proxy_enabled, t |-> now,
                 ret |-> get_current_user(proxy_enabled, headers, credentials, now) ]
    /\ UNCHANGED <<config_file, backup_file, en, sync_status, sync_call, wh, sr, tasks>>
    /\ UNCHANGED authVars

----------------------------------------------------------------------------
(* Specifications.  Each draws the inputs of the operations from the part  *)
(* of the input universe its properties are about.                         *)

\* The permission cache: two users and two repositories whose names give
\* three distinct cache keys, lookups that GitHub answers or fails.
CacheResponses ==
    { [err |-> "", status |-> HTTP_OK, permission |-> "read"],
      NotFoundResponse,
      [err |-> "", status |-> 500, permission |-> "none"] }

NextCheck ==
    \E username \in Usernames, repo_name \in RepoNames,
       required_permission \in {"read", "write"}, resp \in CacheResponses :
        CheckRepositoryAccess(username, repo_name, "tok", required_permission, resp)

NextClearUser == \E username \in Usernames : ClearUserCache(username)

NextClearRepository == \E repo_name \in RepoNames : ClearRepositoryCache(repo_name)

Next ==
    \/ Tick
    \/ NextCheck
    \/ NextClearUser
    \/ NextClearRepository

Spec == Init /\ [][Next]_vars

\* The role table: one user and one repository, every role GitHub can
\* answer, every permission a caller can require, every way a lookup fails.
NextCheckRole ==
    \E required_permission \in RequiredPermissions, resp \in Responses :
        CheckRepositoryAccess(<<"a">>, <<"c">>, "tok", required_permission, resp)

NextRoles ==
    \/ Tick
    \/ NextCheckRole

SpecRoles == Init /\ [][NextRoles]_vars

\* The middleware's control flow: requests of an authenticated user to
\* repository, public and other paths, with a helper or the downstream
\* handler raising.
DispatchPaths ==
    { P_DOCS_REPO \o <<"c">>,
      P_DOCS_REPO \o <<"c">> \o <<"/", "g", "u", "i", "d", "e">>,
      P_API_REPOS \o <<"c">>,
      P_SITE \o <<"c">> \o <<"/">>,
      P_PROJECTS \o <<"c">>,
      P_DOCS_REPO,
      P_HEALTH \o <<"/">>,
      P_DOCS,
      <<"/", "s", "o", "m", "e", "/", "o", "t", "h", "e", "r", "/", "p", "a", "t", "h">> }

Faults ==
    { "", "is_public_endpoint", "extract_repository_from_url",
      "get_username_from_request", "get_access_token_from_request" }

\* What the downstream handler produces at its first and second invocation
HandlerOutcomes ==
    { <<"response", "response">>, <<"http_exception", "response">>,
      <<"exception", "response">>, <<"exception", "exception">> }

DispatchRequests ==
    [ path : DispatchPaths, method : {"GET"}, user_header : { <<"a">> },
      token_header : {"tok"}, authorization : { << >> }, fault : Faults ]

NextDispatch ==
    \E req \in DispatchRequests,
       resp \in { [err |-> "", status |-> HTTP_OK, permission |-> "read"],
                  NotFoundResponse },
       h \in HandlerOutcomes :
        Dispatch(req, resp, h[1], h[2])

InitDispatch ==
    /\ Init
    /\ proxy_enabled
    /\ github_org # ""

SpecDispatch == InitDispatch /\ [][NextDispatch]_vars

\* Credentials and methods: requests to one repository path with every
\* combination of credential headers and every HTTP method.
HttpMethods == { "GET", "HEAD", "POST", "PUT", "PATCH", "DELETE" }

AuthorizationHeaders ==
    { << >>, <<"Bearer ", "tok">>, <<"Bearer ", "">>, <<"Basic d", "G9r">> }

HeaderRequests ==
    [ path : { P_DOCS_REPO \o <<"c">> }, method : HttpMethods,
      user_header : { << >>, <<"a">> }, token_header : {"", "tok"},
      authorization : AuthorizationHeaders, fault : {""} ]

NextHeaders ==
    \E req \in HeaderRequests,
       resp \in { [err |-> "", status |-> HTTP_OK, permission |-> "read"],
                  NotFoundResponse } :
        Dispatch(req, resp, "response", "response")

InitHeaders ==
    /\ Init
    /\ github_org # ""

SpecHeaders == InitHeaders /\ [][NextHeaders]_vars

\* Enrollment: two documented repositories whose names contain one another,
\* one without documentation, enrolled under the default title or under an
\* explicit section, and unenrolled by name.
FULL_AB == <<"o", "/", "a", "b">>

Repositories ==
    { [ name |-> <<"a", "b">>, full_name |-> FULL_AB,
        clone_url |-> "https://github.com/o/ab.git", default_branch |-> "main",
        has_docs |-> TRUE ],
      [ name |-> <<"a", "b", "c">>, full_name |-> <<"o", "/", "a", "b", "c">>,
        clone_url |-> "https://github.com/o/abc.git", default_branch |-> "main",
        has_docs |-> TRUE ],
      [ name |-> <<"c", "d">>, full_name |-> <<"o", "/", "c", "d">>,
        clone_url |-> "https://github.com/o/cd.git", default_branch |-> "main",
        has_docs |-> FALSE ] }

ExistingFile(has_projects, projects) ==
    [ exists |-> TRUE, has_projects |-> has_projects, projects |-> projects ]

NextEnrollment ==
    \/ \E backup_config \in BOOLEAN, repo_info \in Repositories,
          section \in { << >>, <<"d">> } :
           EnrollRepository(backup_config, repo_info, section)
    \/ \E backup_config \in BOOLEAN,
          repository_name \in { <<"a", "b">>, <<"A", "B", "C">>, <<"z">> } :
           UnenrollRepository(backup_config, repository_name)

SpecEnrollment ==
    InitDocs({ AbsentFile, ExistingFile(FALSE, << >>), ExistingFile(TRUE, << OverviewEntry >>) })
        /\ [][NextEnrollment]_vars

\* The sync pipeline: the repository o/ab enrolled under its full name, under
\* its default title, or not at all; every stage returns or raises one of
\* the exceptions it can raise.
EnrolledAs(key) ==
    ExistingFile(TRUE, << OverviewEntry,
        [ key |-> key, value |-> <<"!import", "https://github.com/o/ab.git", "main">> ] >>)

StageOutcomes(pc) ==
    CASE pc = "get_enrolled_repositories" -> { "", "UnicodeDecodeError", "YAMLError" }
      [] pc = "prepare_workspace" -> { "", "PermissionError" }
      [] pc = "clone_or_update_repo" -> { "", "GitCommandError", "OSError" }
      [] pc = "process_documentation" -> { "", "OSError" }
      [] pc = "generate_api_documentation" -> { "", "RuntimeError" }
      [] OTHER -> { "" }

NextSync ==
    \/ \E repo_full_name \in { FULL_AB, <<"o", "/", "z">> }, commit_sha \in { "", "abc123" } :
           SyncStart(repo_full_name, commit_sha)
    \/ \E outcome \in StageOutcomes(sync_call.pc) : SyncStage(outcome)

SpecSync ==
    InitDocs({ AbsentFile, EnrolledAs(FULL_AB), EnrolledAs(Title(<<"a", "b">>)) })
        /\ [][NextSync]_vars

\* Webhooks: the repository o/ab is enrolled under its default title or
\* under its full name; requests carry a push or a ping for it or for
\* another repository, signed correctly, with another secret, for another
\* body, not at all, without the prefix, or with a non-ASCII signature.
NoFiles == [ added |-> << >>, modified |-> << >>, removed |-> << >> ]

Paths ==
    [ docs_x_md |-> <<"d", "o", "c", "s", "/", "x", ".", "m", "d">>,
      readme_md |-> <<"R", "E", "A", "D", "M", "E", ".", "m", "d">>,
      src_main_py |-> <<"s", "r", "c", "/", "m", "a", "i", "n", ".", "p", "y">>,
      src_docs_x_py |-> <<"s", "r", "c", "/", "d", "o", "c", "s", "/", "x", ".", "p", "y">>,
      mkdocs_yml |-> <<"m", "k", "d", "o", "c", "s", ".", "y", "m", "l">>,
      index_rst |-> <<"i", "n", "d", "e", "x", ".", "r", "s", "t">> ]

PushBody(name, full_name, commits) ==
    [ json |-> TRUE, repository |-> [ name |-> name, full_name |-> full_name ],
      commits |-> commits, after |-> "abc123", head_commit_id |-> "" ]

Bodies ==
    { PushBody(<<"a", "b">>, FULL_AB, << [ NoFiles EXCEPT !.modified = << Paths.docs_x_md >> ] >>),
      PushBody(<<"a", "b">>, FULL_AB, << [ NoFiles EXCEPT !.added = << Paths.src_main_py >> ] >>),
      PushBody(<<"z">>, <<"o", "/", "z">>, << [ NoFiles EXCEPT !.modified = << Paths.docs_x_md >> ] >>),
      PushBody(<< >>, << >>, << [ NoFiles EXCEPT !.modified = << Paths.docs_x_md >> ] >>),
      [ PushBody(<<"a", "b">>, FULL_AB, << >>) EXCEPT !.json = FALSE ] }

SyncOutcomes ==
    LET all_return == [ stage \in { SyncStages[i] : i \in 1..Len(SyncStages) } |-> "" ]
    IN  { all_return,
          [ all_return EXCEPT !["get_enrolled_repositories"] = "UnicodeDecodeError" ],
          [ all_return EXCEPT !["clone_or_update_repo"] = "GitCommandError" ] }

\* With no secret configured the signature is not looked at
NextWebhook ==
    \E webhook_secret \in { "", "S1" }, body \in Bodies, event_type \in { "push", "ping" },
       outcomes \in SyncOutcomes :
        \E signature \in
              IF webhook_secret = ""
              THEN { << "", << >> >>, << "", hmac_sha256_hexdigest("S1", body) >> }
              ELSE { << "sha256=", hmac_sha256_hexdigest("S1", body) >>,
                     << "sha256=", hmac_sha256_hexdigest("S2", body) >>,
                     << "sha256=", hmac_sha256_hexdigest("S1", CHOOSE other \in Bodies : other # body) >>,
                     << "", << >> >>,
                     << "", hmac_sha256_hexdigest("S1", body) >>,
                     << "sha256=", NON_ASCII >> } :
            Webhook(webhook_secret,
                    [ body |-> body, event_type |-> event_type, signature |-> signature ],
                    outcomes)

SpecWebhook ==
    InitDocs({ AbsentFile, ExistingFile(TRUE, << OverviewEntry >>),
               EnrolledAs(FULL_AB), EnrolledAs(Title(<<"a", "b">>)) })
        /\ [][NextWebhook]_vars

\* Enrollment followed by webhooks: o/ab is enrolled under its default title
\* or under its full name, and correctly signed pushes arrive for it.
NextEnrollWebhook ==
    \/ \E repo_info \in { r \in Repositories : r.full_name = FULL_AB },
          section \in { << >>, FULL_AB } :
           EnrollRepository(TRUE, repo_info, section)
    \/ \E body \in { b \in Bodies : b.json /\ b.repository.full_name = FULL_AB },
          outcomes \in SyncOutcomes :
           Webhook("S1",
                   [ body |-> body, event_type |-> "push",
                     signature |-> << "sha256=", hmac_sha256_hexdigest("S1", body) >> ],
                   outcomes)

SpecEnrollWebhook ==
    InitDocs({ AbsentFile, ExistingFile(TRUE, << OverviewEntry >>) })
        /\ [][NextEnrollWebhook]_vars

\* contains_docs_changes as a function of the commit list: no commit, one
\* commit, or an empty commit followed by one, with at most one path in each
\* of its three lists.
NextDocsChanges ==
    LET file_lists == { << >> } \cup
            { << Paths[name] >> : name \in DOMAIN Paths }
        commits == [ added : file_lists, modified : file_lists, removed : file_lists ]
    IN  \E commit_list \in { << >> } \cup { << commit >> : commit \in commits }
                               \cup { << NoFiles, commit >> : commit \in commits } :
            ContainsDocsChanges(commit_list)

SpecDocsChanges == InitDocs({ AbsentFile }) /\ [][NextDocsChanges]_vars

\* Secure search: four repositories enrolled, searched by nobody, by a
\* session with credentials and by one without the attributes the engine
\* reads; GitHub grants or denies each repository, or its check raises.
SearchNames == << <<"A", "b">>, <<"A", "b", "c">>, <<"d">>, <<"e">> >>

Sessions ==
    { [ present |-> FALSE, has_credentials |-> FALSE, username |-> << >>, access_token |-> "" ],
      [ present |-> TRUE, has_credentials |-> TRUE, username |-> <<"a">>, access_token |-> "tok" ],
      [ present |-> TRUE, has_credentials |-> FALSE, username |-> << >>, access_token |-> "" ] }

NextSearch ==
    \E session \in Sessions,
       query \in [ repositories : { << >>, << SearchNames[2], SearchNames[4] >> },
                   offset : { 0, 1 }, limit : { DefaultLimit } ],
       answers \in [ { SearchNames[i] : i \in 1..Len(SearchNames) } ->
                       { [err |-> "", status |-> HTTP_OK, permission |-> "read"],
                         NotFoundResponse } ],
       raising \in { {}, { SearchNames[2] } } :
        Search(session, query, answers, raising)

SpecSearch ==
    InitDocs({ AbsentFile,
               ExistingFile(TRUE, << OverviewEntry >> \o
                   [ i \in 1..Len(SearchNames) |->
                       [ key |-> SearchNames[i],
                         value |-> <<"!import", "https://github.com/o/r.git", "main">> ] ]) })
        /\ [][NextSearch]_vars

\* Two processes (server workers, the command line) that share one
\* mkdocs.yml: each call loads the file, and saves later; the steps of the
\* two interleave freely.
NextConcurrent ==
    \/ \E p \in { 1, 2 }, backup_config \in BOOLEAN,
          repo_info \in { r \in Repositories : r.has_docs } :
           LoadConfig(p, "enroll", backup_config, repo_info, << >>, << >>)
    \/ \E p \in { 1, 2 }, backup_config \in BOOLEAN :
           LoadConfig(p, "unenroll", backup_config, NoRepository, << >>, <<"a", "b", "c">>)
    \/ \E p \in { 1, 2 } : SaveConfig(p)

SpecConcurrent ==
    InitDocs({ ExistingFile(FALSE, << >>), ExistingFile(TRUE, << OverviewEntry >>) })
        /\ [][NextConcurrent]_vars

\* Stateless operations.  rewrite_file_content: contents of one or two
\* links, inline or reference-style, an inline link after a bracketed label
\* and a colon, with absolute, mailto, anchor and relative targets; one
\* registered repository and one that is not.
NextRewrite ==
    LET LinkTargets ==
            { <<"h", "t", "t", "p", "s", ":", "/", "/", "e", ".", "c">>,
              <<"H", "T", "T", "P", ":", "/", "/", "e", ".", "c">>,
              <<"m", "a", "i", "l", "t", "o", ":", "a", "@", "b">>,
              <<"#", "s">>,
              <<"g", ".", "m", "d">>,
              <<".", ".", "/", "h", ".", "m", "d", "#", "s">> }
        inline(url) == <<"[", "t", "]", "(">> \o url \o <<")">>
        reference(url) == <<"[", "r", "]", ":", " ">> \o url
        single == { inline(url) : url \in LinkTargets }
                    \cup { reference(url) : url \in LinkTargets }
        contents == single
                    \cup { <<"x", " ", "[", "n", "]", ":", " ">> \o inline(url) : url \in LinkTargets }
                    \cup { inline(a) \o <<" ">> \o inline(b) :
                             a \in LinkTargets, b \in { <<"g", ".", "m", "d">>, <<"#", "s">> } }
    IN  \E content \in contents, source_repo \in { "r1", "r2" },
           source_file_path \in { <<"d", "o", "c", "s", "/", "i", ".", "m", "d">>,
                                  <<"d", "o", "c", "s", "/", "g", "u", "i", "d", "e", "/", "s", ".", "m", "d">> },
           rewrite_rules \in [ { "r1" } ->
               [ repo_name : { "r1" },
                 base_path : { <<"/", "p", "r", "o", "j", "e", "c", "t", "s", "/", "x", "/">> },
                 docs_dir : { <<"d", "o", "c", "s">> }, preserve_anchors : { TRUE },
                 preserve_query_params : { TRUE } ] ] :
            RewriteFileContent(rewrite_rules, content, source_repo, source_file_path,
                               <<"/", "w">>)

\* check_repository_documentation: a repository as _parse_repository_data
\* leaves it (has_docs False, docs_path and mkdocs_config None, written
\* << >>), docs/ answered in any of the four ways, the other directory
\* indicators found as a directory, not found or failing, and each file
\* indicator found as a file or not found.  get_current_user:
\* the user header present or not, no bearer token or one signed with the
\* right or another key, for the right or another audience, with or without
\* subject and expiry, expiring before, at or after the time of the call.
NextCalls ==
    \/ NextRewrite
    \/ \E responses \in [ 1..Len(docs_indicators) -> { "list", "object", "not_found", "error" } ],
          repo_info \in [ name : { <<"c", "d">> }, full_name : { <<"o", "/", "c", "d">> },
                          has_docs : { FALSE }, docs_path : { << >> },
                          mkdocs_config : { << >> } ] :
            /\ \A i \in 4..Len(docs_indicators) : responses[i] \in { "object", "not_found" }
            /\ \A i \in 2..3 : responses[i] # "object"
            /\ responses[6] = responses[7]
            /\ CheckRepositoryDocumentation(repo_info, responses)
    \/ \E headers \in [ user : { << >>, <<"u">> }, email : { << >>, <<"u", "@", "e">> } ],
          credentials \in
              [ present : BOOLEAN,
                token : [ signed_with : { "secret_key", "other_key" },
                          aud : { "ff-docs-api", "other" },
                          has_sub : BOOLEAN, sub : { <<"v">> },
                          has_exp : BOOLEAN, exp : { now - 1, now, now + 1 },
                          session_id : { <<"s">> } ] ] :
            /\ ~credentials.present =>
                    credentials.token = [ signed_with |-> "secret_key", aud |-> "ff-docs-api",
                                          has_sub |-> TRUE, sub |-> <<"v">>,
                                          has_exp |-> TRUE, exp |-> now,
                                          session_id |-> <<"s">> ]
            /\ ~credentials.token.has_exp => credentials.token.exp = now
            /\ GetCurrentUser(headers, credentials)

SpecCalls == Init /\ [][NextCalls]_vars

----------------------------------------------------------------------------
(* Properties                                                              *)

\* C1 (as stated): for a request whose path matches a repository pattern,
\* dispatch invokes the downstream handler only if the Permission Manager
\* granted "read" on the extracted repository; when the check denies, a 403
\* is raised and the handler is never invoked.
C1_HandlerOnlyIfGranted ==
    (mw.op = "dispatch" /\ extract_repository_from_url(mw.req.path) # << >>) =>
        /\ mw.handler_calls > 0 =>
              /\ mw.consulted /\ mw.has_access /\ mw.permission = "read"
              /\ mw.repo_name = extract_repository_from_url(mw.req.path)
        /\ (mw.consulted /\ ~mw.has_access) =>
              (mw.status = "403" /\ mw.handler_calls = 0)

\* C1 (amended): for a request whose path matches a repository pattern,
\* dispatch invokes the downstream handler only if the Permission Manager
\* granted "read" on the extracted repository, or a non-HTTP exception
\* raised by a helper of dispatch reached its fail-open handler; when the
\* check denies, a 403 is raised and the handler is never invoked.
C1_HandlerOnlyIfGrantedOrFailOpen ==
    (mw.op = "dispatch" /\ extract_repository_from_url(mw.req.path) # << >>) =>
        /\ mw.handler_calls > 0 =>
              \/ /\ mw.consulted /\ mw.has_access /\ mw.permission = "read"
                 /\ mw.repo_name = extract_repository_from_url(mw.req.path)
              \/ mw.fail_open /\ mw.req.fault # ""
        /\ (mw.consulted /\ ~mw.has_access) =>
              (mw.status = "403" /\ mw.handler_calls = 0)

\* A repository request that the Permission Manager denied and that ended
\* in the 403.
C1_Witness ==
    /\ mw.op = "dispatch"
    /\ mw.req.path = P_SITE \o <<"c">> \o <<"/">>
    /\ mw.repo_name = <<"c">>
    /\ mw.consulted /\ ~mw.has_access
    /\ mw.status = "403" /\ mw.handler_calls = 0

\* C2: when the fresh lookup fails (status other than 200 or 404, exception
\* of the HTTP client, organization not configured), the call returns False
\* whatever permission is required, and GitHub is asked at most once.
C2_FailedLookupDenies ==
    (pm.op = "check" /\ pm.source # "cache" /\ pm.resp_failed) =>
        (pm.ret = FALSE /\ pm.gh_calls <= 1 /\ pm.source = "failed")

\* A check for "read" whose lookup GitHub failed: one request, answer False.
C2_Witness ==
    /\ pm.op = "check" /\ pm.source = "failed" /\ pm.resp_failed
    /\ pm.required_permission = "read"
    /\ pm.gh_calls = 1 /\ pm.ret = FALSE

\* C3: an entry written at T answers the checks of its pair from the cache,
\* without a GitHub call, while t < T + 10; the first check at t >= T + 10
\* removes it and looks up afresh, so no answer comes from an entry older
\* than 10 minutes.
C3_CacheTtl ==
    (pm.op = "check" /\ pm.had_entry) =>
        LET key == get_cache_key(pm.username, pm.repo_name)
        IN  IF pm.at < pm.entry_cached_at + 10
            THEN pm.source = "cache" /\ pm.gh_calls = 0
            ELSE /\ pm.source # "cache"
                 /\ pm.gh_calls = 1
                 /\ key \in DOMAIN cache => cache[key].cached_at = pm.at

\* A check made exactly 10 minutes after the entry was written, answered
\* by GitHub.
C3_Witness ==
    /\ pm.op = "check" /\ pm.had_entry
    /\ pm.at = pm.entry_cached_at + 10
    /\ pm.source = "github" /\ pm.gh_calls = 1

\* C4 (as stated): the roles form a hierarchy read < triage < write <
\* maintain < admin: a permission that check_repository_access grants to a
\* role is granted to every role ranked above it.
C4_RoleHierarchy ==
    LET rank == [ read |-> 1, triage |-> 2, write |-> 3, maintain |-> 4,
                  admin |-> 5 ]
    IN  (/\ pm.op = "check" /\ pm.source = "github" /\ pm.ret
         /\ pm.github_permission \in DOMAIN rank) =>
            \A higher \in DOMAIN rank :
                rank[higher] > rank[pm.github_permission] =>
                    check_repository_access(<< >>, pm.at, github_org,
                        pm.username, pm.repo_name, "tok",
                        pm.required_permission,
                        [err |-> "", status |-> 200, permission |-> higher]).ret

\* C5: a role that is not a key of the mapping table gets False for every
\* required permission, from the fresh lookup and from the cache.
C5_UnknownRoleDenied ==
    (/\ pm.op = "check" /\ pm.source \in {"github", "cache"}
     /\ pm.github_permission \notin {"read", "triage", "write", "maintain", "admin"}) =>
        pm.ret = FALSE

\* A check answered from the cache entry of a role GitHub does not document.
C5_Witness ==
    /\ pm.op = "check" /\ pm.source = "cache"
    /\ pm.github_permission = "owner"
    /\ pm.required_permission = "read" /\ pm.ret = FALSE

\* C6: a lookup that GitHub answers is cached even when it grants nothing,
\* and a check answered from the cache makes no GitHub call and is decided
\* by the capability list of the cached role.
C6_AnswersAreCached ==
    pm.op = "check" =>
        LET key == get_cache_key(pm.username, pm.repo_name)
        IN  /\ pm.source = "github" =>
                /\ key \in DOMAIN cache
                /\ cache[key].github_permission = pm.github_permission
                /\ cache[key].cached_at = pm.at
            /\ pm.source = "cache" =>
                /\ pm.gh_calls = 0
                /\ key \in DOMAIN cache
                /\ cache[key].github_permission = pm.github_permission
                /\ cache[key].cached_at + 10 > pm.at
                /\ pm.ret = InList("repo:" \o pm.required_permission,
                                   role_permissions(pm.github_permission))

\* A second check answered from a cached "no access" result.
C6_Witness ==
    /\ pm.op = "check" /\ pm.source = "cache" /\ pm.gh_calls = 0
    /\ pm.github_permission = "none" /\ pm.ret = FALSE

\* C7 (as stated): clear_user_cache(u) removes exactly the entries that
\* belong to user u and leaves the entries of every other user unchanged.
C7_ClearUserExact ==
    pm.op = "clear_user_cache" =>
        /\ DOMAIN cache =
              { k \in DOMAIN pm.before : pm.before[k].username # pm.username }
        /\ \A k \in DOMAIN cache : cache[k] = pm.before[k]

\* C8: the 403 raised when validation denies leaves dispatch without the
\* handler being run; a non-HTTP exception raised by a helper of dispatch
\* or by the handler reaches the fail-open handler, which passes the
\* request on to the handler.
C8_FailOpen ==
    mw.op = "dispatch" =>
        /\ mw.status = "403" => (mw.handler_calls = 0 /\ ~mw.fail_open)
        /\ mw.req.fault = "is_public_endpoint" =>
              (mw.fail_open /\ mw.handler_calls = 1)
        /\ (/\ mw.req.fault = "extract_repository_from_url"
            /\ ~is_public_endpoint(mw.req.path)) =>
              (mw.fail_open /\ mw.handler_calls = 1)
        /\ (mw.req.fault = "" /\ mw.h1 = "exception" /\ mw.status # "403") =>
              (mw.fail_open /\ mw.handler_calls = 2)

\* A repository request during which _extract_repository_from_url raised,
\* and which the handler answered.
C8_Witness ==
    /\ mw.op = "dispatch"
    /\ mw.req.path = P_DOCS_REPO \o <<"c">>
    /\ mw.req.fault = "extract_repository_from_url"
    /\ mw.fail_open /\ mw.handler_calls = 1 /\ mw.status = "response"

\* C9 (as stated): username and token come from the OAuth2-Proxy headers
\* when present and otherwise from the Authorization: Bearer header; the
\* request is rejected without consulting the Permission Manager exactly
\* when the username or the token is absent from both.
C9_CredentialsFromProxyOrBearer ==
    (mw.op = "dispatch" /\ mw.validated) =>
        LET bearer == /\ mw.req.authorization # << >>
                      /\ mw.req.authorization[1] = "Bearer "
                      /\ mw.req.authorization[2] # ""
            username_present ==
                (proxy_enabled /\ mw.req.user_header # << >>) \/ bearer
            token_present == mw.req.token_header # "" \/ bearer
        IN  /\ mw.consulted <=> (username_present /\ token_present)
            /\ ~mw.consulted => (mw.status = "403" /\ mw.handler_calls = 0)

\* C10: dispatch requires "read" whatever the HTTP method, so a user whose
\* role grants only repo:read is let through for every method.
C10_AlwaysRead ==
    (mw.op = "dispatch" /\ mw.consulted) =>
        /\ mw.permission = "read"
        /\ mw.granted_role = "read" =>
              (mw.has_access /\ mw.status = "response" /\ mw.handler_calls = 1)

\* A DELETE of a user with the read role that reached the handler.
C10_Witness ==
    /\ mw.op = "dispatch" /\ mw.req.method = "DELETE"
    /\ mw.consulted /\ mw.granted_role = "read"
    /\ mw.status = "response" /\ mw.handler_calls = 1

\* C11: within one sync_repository call the SyncStatus only moves forward
\* along started -> cloning -> processing -> completed, or from any of these
\* to failed; once it is completed or failed no later step of that call
\* changes it, and the status stored for the repository is that status.
SyncSuccessor(status) ==
    CASE status = "started" -> "cloning"
      [] status = "cloning" -> "processing"
      [] status = "processing" -> "completed"
      [] OTHER -> "none"

SyncTerminal == { "completed", "failed" }

C11_StatusMovesForward ==
    [][ sync_call'.pc # SyncStages[1] /\ sync_call.pc # "idle" =>
            /\ \/ sync_call'.status = sync_call.status
               \/ /\ sync_call.status \notin SyncTerminal
                  /\ sync_call'.status \in { "failed", SyncSuccessor(sync_call.status) }
            /\ sync_status'[sync_call'.repository].status = sync_call'.status
            /\ (sync_call.status \in SyncTerminal => sync_call'.pc = sync_call.pc) ]_vars

\* An enrolled repository was synchronised through every stage
C11_Witness ==
    /\ sync_call.pc = "returned"
    /\ sync_call.status = "completed"
    /\ sync_status[sync_call.repository].status = "completed"

\* C12 (as stated): every sync_repository call ends with the SyncStatus
\* stored for the repository in a terminal state: an exception raised in any
\* stage moves the status to failed with the error recorded and the call
\* returns that status.
C12_EndsTerminal ==
    sync_call.pc \in SyncEnded =>
        /\ sync_call.pc = "returned"
        /\ sync_status[sync_call.repository].status \in SyncTerminal
        /\ (sync_status[sync_call.repository].status = "failed" =>
               sync_status[sync_call.repository].error # "")

\* C18: enroll_repository performs no duplicate detection: enrolling the
\* same repository twice in succession succeeds both times and leaves two
\* more entries for it in the Projects section than there were before.
Count(x, list) == Cardinality({ i \in 1..Len(list) : list[i] = x })

EnrolledTwice ==
    /\ en.last.op = "enroll"
    /\ en.prev.op = "enroll"
    /\ en.prev.ret
    /\ en.last.repo_info = en.prev.repo_info
    /\ en.last.section = en.prev.section

C18_NoDuplicateDetection ==
    EnrolledTwice =>
        LET entry == nav_entry(en.last.repo_info, en.last.section)
        IN  /\ en.last.ret
            /\ config_file.has_projects
            /\ Count(entry, config_file.projects)
                   = Count(entry, en.prev.before.projects) + 2
            /\ Len(config_file.projects) = Len(en.last.before.projects) + 1

C18_Witness ==
    /\ EnrolledTwice
    /\ en.last.ret
    /\ Count(nav_entry(en.last.repo_info, en.last.section), config_file.projects) = 2

\* C19: unenroll_repository(name), on an existing mkdocs.yml, for a name that
\* matches no entry of the Projects section returns False and performs no
\* write: neither mkdocs.yml nor mkdocs.yml.backup is created or modified.
MatchesNoEntry(name, projects) ==
    \A i \in 1..Len(projects) : ~Contains(Lower(projects[i].key), Lower(name))

C19_UnenrollNotFoundWritesNothing ==
    /\ en.last.op = "unenroll"
    /\ en.last.before.exists
    /\ MatchesNoEntry(en.last.name, en.last.before.projects)
    => /\ en.last.ret = FALSE
       /\ en.last.raised = ""
       /\ ~en.last.wrote_config
       /\ ~en.last.wrote_backup
       /\ config_file = en.last.before
       /\ backup_file = en.before_backup

\* A name that matches nothing, with repositories enrolled
C19_Witness ==
    /\ en.last.op = "unenroll"
    /\ en.last.before.exists
    /\ Len(en.last.before.projects) >= 2
    /\ MatchesNoEntry(en.last.name, en.last.before.projects)
    /\ en.last.ret = FALSE

\* C13 (as stated): with a webhook secret configured, every request whose
\* X-Hub-Signature-256 is not "sha256=" followed by the HMAC-SHA256 of the
\* raw body under that secret is rejected with 401 and triggers no sync.
SignatureIsHmac(req, secret) ==
    req.signature = << "sha256=", hmac_sha256_hexdigest(secret, req.body) >>

C13_BadSignatureRejected ==
    /\ wh.op = "webhook"
    /\ wh.webhook_secret # ""
    /\ ~SignatureIsHmac(wh.req, wh.webhook_secret)
    => /\ wh.http = HTTP_UNAUTHORIZED
       /\ wh.sync_calls = 0

\* C14 (as stated): the handler triggers the sync pipeline only for a
\* repository whose full_name is among the names of the enrolled
\* repositories; a push for any other repository that comes to the
\* enrollment check is answered with status ignored and triggers no sync.
IsEnrolled(repo_full_name) ==
    InList(repo_full_name, list_enrolled_repositories(config_file))

LookupRaised ==
    get_enrolled_repositories(config_file, wh.outcomes["get_enrolled_repositories"]).raised

CameToEnrollmentCheck == wh.reached \in { "enrollment", "docs_changes", "sync" }

C14_SyncOnlyIfEnrolled ==
    wh.op = "webhook" =>
        /\ wh.sync_calls > 0 => IsEnrolled(wh.req.body.repository.full_name)
        /\ (CameToEnrollmentCheck /\ ~IsEnrolled(wh.req.body.repository.full_name))
               => (wh.status = "ignored" /\ wh.sync_calls = 0)

\* C14 (amended): the handler triggers the sync pipeline only for a
\* repository whose full_name is among the enrolled names, or when the
\* enrollment lookup itself raised a ValueError or RuntimeError; when the
\* lookup returned, a push for any other repository is answered with status
\* ignored and triggers no sync.
C14_SyncOnlyIfEnrolledOrLookupFailed ==
    wh.op = "webhook" =>
        /\ wh.sync_calls > 0 =>
               \/ IsEnrolled(wh.req.body.repository.full_name)
               \/ IsInstance(LookupRaised, {"ValueError", "RuntimeError"})
        /\ (CameToEnrollmentCheck /\ LookupRaised = ""
              /\ ~IsEnrolled(wh.req.body.repository.full_name))
               => (wh.http = HTTP_OK /\ wh.status = "ignored" /\ wh.sync_calls = 0)

\* A push for a repository that is not enrolled, while another one is
C14_Witness ==
    /\ wh.op = "webhook"
    /\ wh.reached = "enrollment"
    /\ LookupRaised = ""
    /\ Len(list_enrolled_repositories(config_file)) > 0
    /\ ~IsEnrolled(wh.req.body.repository.full_name)
    /\ wh.status = "ignored"

\* C15 (as stated): after enroll_repository succeeded for a repository with
\* full_name org/name, a correctly signed push for org/name whose commits
\* change documentation files triggers sync_repository for it, and that
\* sync does not end as failed with 'not enrolled'.
C15_EnrolledPushSyncs ==
    /\ wh.op = "webhook"
    /\ wh.enrolled_before.op = "enroll"
    /\ wh.enrolled_before.ret
    /\ wh.enrolled_before.repo_info.full_name = wh.req.body.repository.full_name
    /\ SignatureIsHmac(wh.req, wh.webhook_secret)
    /\ wh.req.event_type = "push"
    /\ contains_docs_changes(wh.req.body.commits)
    /\ wh.outcomes["get_enrolled_repositories"] = ""
    => /\ wh.sync_calls = 1
       /\ wh.call.repository = wh.req.body.repository.full_name
       /\ ~(wh.call.status = "failed" /\ wh.call.error = NOT_ENROLLED)

\* C16: a request whose event type is not push, or whose commits contain
\* no documentation change, never triggers the sync pipeline and, once its
\* signature, payload and enrollment lookup are accepted, is answered with
\* status ignored; a request that passes every check triggers the sync
\* pipeline exactly once.
SignatureAccepted ==
    wh.webhook_secret = "" \/ SignatureIsHmac(wh.req, wh.webhook_secret)

LookupAccepted ==
    LookupRaised = "" \/ IsInstance(LookupRaised, {"ValueError", "RuntimeError"})

PassesEveryCheck ==
    /\ SignatureAccepted
    /\ wh.req.body.json
    /\ wh.req.event_type = "push"
    /\ wh.req.body.repository.name # << >>
    /\ LookupAccepted
    /\ (LookupRaised = "" => IsEnrolled(wh.req.body.repository.full_name))
    /\ contains_docs_changes(wh.req.body.commits)

C16_IgnoredOrSyncedOnce ==
    wh.op = "webhook" =>
        /\ (wh.req.event_type # "push" \/ ~contains_docs_changes(wh.req.body.commits))
               => (wh.sync_calls = 0 /\ wh.status # "processed")
        /\ (SignatureAccepted /\ wh.req.body.json /\ wh.req.event_type # "push")
               => (wh.http = HTTP_OK /\ wh.status = "ignored")
        /\ (SignatureAccepted /\ wh.req.body.json /\ wh.req.event_type = "push"
              /\ wh.req.body.repository.name # << >> /\ LookupAccepted
              /\ ~contains_docs_changes(wh.req.body.commits))
               => (wh.http = HTTP_OK /\ wh.status = "ignored")
        /\ PassesEveryCheck => (wh.sync_calls = 1 /\ wh.status = "processed")
        /\ wh.sync_calls > 0 => PassesEveryCheck

\* A push that passed every check
C16_Witness ==
    /\ wh.op = "webhook"
    /\ PassesEveryCheck
    /\ wh.sync_calls = 1
    /\ wh.call.status = "completed"

\* C17 (as stated): contains_docs_changes(commits) is True exactly when some
\* path in the added, modified or removed list of some commit matches one
\* of the documentation patterns docs/, *.md, *.rst, mkdocs.yml or
\* mkdocs.yaml, .factfiber-docs.yml or .factfiber-docs.yaml.  A path matches
\* *.md or *.rst when it ends with .md or .rst; the other patterns are read
\* as the code reads them.
MatchesDocumentationPattern(path) ==
    \/ EndsWith(path, <<".", "m", "d">>)
    \/ EndsWith(path, <<".", "r", "s", "t">>)
    \/ \E pattern \in docs_patterns : Contains(path, pattern)

C17_TrueExactlyOnPatternMatch ==
    wh.op = "contains_docs_changes" =>
        wh.ret = \E i \in 1..Len(wh.commits) :
                     \E j \in 1..Len(commit_files(wh.commits[i])) :
                         MatchesDocumentationPattern(commit_files(wh.commits[i])[j])

\* C20: SecureSearchEngine.search returns results only from repositories
\* for which check_repository_access(user, repo, token, "read") returned
\* True during that search: an anonymous caller gets no results, and a
\* repository whose check returned False or raised is in neither the results
\* nor repositories_searched.
CheckedTrue ==
    { sr.checks[i].repo : i \in { j \in 1..Len(sr.checks) : sr.checks[j].outcome = "true" } }

CheckedOtherwise ==
    { sr.checks[i].repo : i \in { j \in 1..Len(sr.checks) : sr.checks[j].outcome # "true" } }

ResultRepositories == { sr.results[i].repository : i \in 1..Len(sr.results) }

SearchedRepositories ==
    { sr.repositories_searched[i] : i \in 1..Len(sr.repositories_searched) }

C20_ResultsOnlyFromGrantedRepositories ==
    sr.op = "search" =>
        /\ ResultRepositories \subseteq CheckedTrue
        /\ SearchedRepositories \subseteq CheckedTrue
        /\ ~sr.session.present => (sr.results = << >> /\ sr.repositories_searched = << >>)
        /\ CheckedOtherwise \cap (ResultRepositories \cup SearchedRepositories) = {}

\* A search that returned results while one repository was denied and the
\* check of another raised
C20_Witness ==
    /\ sr.op = "search"
    /\ sr.results # << >>
    /\ \E i \in 1..Len(sr.checks) : sr.checks[i].outcome = "false"
    /\ \E i \in 1..Len(sr.checks) : sr.checks[i].outcome = "raised"

\* C30 (as stated): a check whose lookup failed leaves the permission cache
\* exactly as it was.
C30_FailedLookupKeepsCache ==
    [][ (pm'.op = "check" /\ pm'.resp_failed /\ pm'.source # "cache") =>
            cache' = cache ]_vars

\* C30 (amended): a check whose lookup failed writes no entry: the cache it
\* leaves is the cache it found without the entry of the checked pair (an
\* expired entry of that pair is deleted before the lookup), so the next
\* check of the pair finds no entry to answer from.
C30_FailedLookupCachesNothing ==
    [][ (pm'.op = "check" /\ pm'.resp_failed /\ pm'.source # "cache") =>
            LET key == get_cache_key(pm'.username, pm'.repo_name)
            IN  cache' = [ k \in (DOMAIN cache) \ { key } |-> cache[k] ] ]_vars

\* A check that found the expired entry of its pair, failed to reach GitHub,
\* returned False and left no entry for the pair
C30_Witness ==
    /\ pm.op = "check" /\ pm.resp_failed /\ pm.source = "failed"
    /\ pm.had_entry /\ pm.at >= pm.entry_cached_at + CacheTtlMinutes
    /\ pm.ret = FALSE
    /\ get_cache_key(pm.username, pm.repo_name) \notin DOMAIN cache
    /\ cache # << >>

\* C29: a check that is answered from the cache is answered from an entry
\* that was written for the same user and the same repository, whatever
\* characters the two names contain.
C29_EntryAnswersOwnPairOnly ==
    (pm.op = "check" /\ pm.source = "cache") =>
        LET key == get_cache_key(pm.username, pm.repo_name)
        IN  /\ key \in DOMAIN cache
            /\ cache[key].username = pm.username
            /\ cache[key].repository = pm.repo_name

\* C26: when a helper that resolves the credentials raises inside
\* _validate_repository_access, the request is denied: dispatch raises the
\* 403, the downstream handler is not invoked and the fail-open handler of
\* dispatch is not reached.
C26_ValidationExceptionDenies ==
    (mw.op = "dispatch" /\ mw.validated /\ mw.raised) =>
        (mw.status = "403" /\ mw.handler_calls = 0 /\ ~mw.fail_open)

\* C28: dispatch invokes the downstream handler at most once for a request,
\* also when the handler raises.
C28_HandlerInvokedAtMostOnce ==
    mw.op = "dispatch" => mw.handler_calls <= 1

\* C27: a request that passed the signature, event-type, enrollment and
\* documentation-change checks is answered 200 with status processed and
\* docs_updated true, also when the sync it triggered raised or ended as
\* failed.
C27_SyncFailureNotReported ==
    (wh.op = "webhook" /\ PassesEveryCheck) =>
        /\ wh.reached = "sync"
        /\ wh.http = HTTP_OK
        /\ wh.status = "processed"
        /\ wh.docs_updated

\* A push that passed every check and whose sync was left by an exception
\* of the clone, answered with processed
C27_Witness ==
    /\ wh.op = "webhook"
    /\ PassesEveryCheck
    /\ wh.call.pc = "raised"
    /\ wh.call.raised = "GitCommandError"
    /\ wh.http = HTTP_OK /\ wh.status = "processed" /\ wh.docs_updated

\* C22: unenroll_repository(R.name) called right after a successful
\* enroll_repository(R, section), whatever the section, returns True and
\* leaves in the Projects section exactly the entries it held before the
\* enrollment (the Overview entry when the section did not exist).
C22_UnenrollUndoesEnroll ==
    /\ en.last.op = "unenroll"
    /\ en.prev.op = "enroll"
    /\ en.prev.ret
    /\ en.last.name = en.prev.repo_info.name
    => /\ en.last.ret
       /\ config_file.projects = IF en.prev.before.has_projects
                                 THEN en.prev.before.projects
                                 ELSE << OverviewEntry >>

\* C23: nothing orders the calls that share mkdocs.yml: the save of a call
\* writes the configuration computed from the file the call loaded,
\* whatever has been written to the file since, so that a change saved by
\* another call in between is lost.
C23_LastWriterWins ==
    [][ \A p \in DOMAIN tasks :
          (tasks[p].pc = "loaded" /\ tasks'[p].pc = "done") =>
              config_file' =
                  IF tasks[p].op = "enroll"
                  THEN enroll_repository(tasks[p].loaded, AbsentFile, FALSE,
                                         tasks[p].repo_info, tasks[p].section).file
                  ELSE unenroll_repository(tasks[p].loaded, AbsentFile, FALSE,
                                           tasks[p].name).file ]_vars

\* Two overlapping enrollments of different repositories that both
\* returned True: the second save replaced the file the first had written,
\* and the repository enrolled by the first is not in the Projects section
C23_Witness ==
    \E p \in DOMAIN tasks, q \in DOMAIN tasks :
        /\ p # q
        /\ tasks[p].pc = "done" /\ tasks[q].pc = "done"
        /\ tasks[p].op = "enroll" /\ tasks[q].op = "enroll"
        /\ tasks[p].ret /\ tasks[q].ret
        /\ tasks[p].repo_info # tasks[q].repo_info
        /\ tasks[p].loaded = tasks[q].loaded
        /\ tasks[p].found = tasks[q].mkdocs_config
        /\ config_file = tasks[p].mkdocs_config
        /\ InList(nav_entry(tasks[p].repo_info, tasks[p].section), config_file.projects)
        /\ ~InList(nav_entry(tasks[q].repo_info, tasks[q].section), config_file.projects)

\* C21: rewrite_file_content returns the content unchanged when no rule is
\* registered for the source repository, and otherwise leaves unchanged
\* every link, inline or reference-style, whose target is an absolute
\* http(s) URL, a mailto: link or a pure #anchor.
FixedTarget(url) ==
    \/ StartsWith(Lower(url), <<"h", "t", "t", "p", ":", "/", "/">>)
    \/ StartsWith(Lower(url), <<"h", "t", "t", "p", "s", ":", "/", "/">>)
    \/ StartsWith(Lower(url), <<"m", "a", "i", "l", "t", "o", ":">>)
    \/ StartsWith(url, <<"#">>)

\* The links [text](target) and [ref]: target of content with such a target
FixedLinks(content) ==
    LET close(i) == Find(content, { "]" }, i + 1)
        paren(i) == Find(content, { ")" }, close(i) + 2)
        stop(i) == Find(content, { " ", "\n" }, close(i) + 3)
        last(i) == IF stop(i) = 0 THEN Len(content) ELSE stop(i) - 1
        inline == { i \in 1..Len(content) :
                      /\ content[i] = "[" /\ close(i) > 0 /\ close(i) < Len(content)
                      /\ content[close(i) + 1] = "(" /\ paren(i) > 0
                      /\ FixedTarget(SubSeq(content, close(i) + 2, paren(i) - 1)) }
        reference == { i \in 1..Len(content) :
                      /\ content[i] = "[" /\ close(i) > 0 /\ close(i) + 2 < Len(content)
                      /\ content[close(i) + 1] = ":" /\ content[close(i) + 2] = " "
                      /\ FixedTarget(SubSeq(content, close(i) + 3, last(i))) }
    IN  { SubSeq(content, i, paren(i)) : i \in inline }
            \cup { SubSeq(content, i, last(i)) : i \in reference }

C21_FixedLinksUntouched ==
    call.op = "rewrite_file_content" =>
        /\ call.source_repo \notin DOMAIN call.rewrite_rules => call.ret = call.content
        /\ \A link \in FixedLinks(call.content) : Contains(call.ret, link)

\* C25: check_repository_documentation takes docs_path from the first
\* directory indicator found in the probe order and sets has_docs; an
\* indicator found later in the order does not overwrite docs_path.
C25_FirstMarkerWins ==
    call.op = "check_repository_documentation" =>
        \A i \in 1..Len(docs_indicators) :
            (/\ call.responses[i] = "list"
             /\ EndsWith(docs_indicators[i], <<"/">>)
             /\ \A j \in 1..(i - 1) : call.responses[j] # "list") =>
                /\ call.ret.has_docs
                /\ call.ret.docs_path = docs_indicators[i]

\* C24: get_current_user returns the session of the OAuth2-Proxy headers,
\* without verifying the bearer token, when the proxy is enabled and the
\* headers yield a session; otherwise the session of a bearer token that
\* verifies; otherwise it fails with 401 "Authentication required".
C24_ProxyThenBearerThen401 ==
    call.op = "get_current_user" =>
        LET session == extract_user_from_headers(call.proxy, call.headers)
            verified == /\ call.credentials.present
                        /\ verify_token(call.credentials.token, call.t).ok
        IN  IF call.proxy /\ session.ok
            THEN /\ call.ret.status = HTTP_OK
                 /\ call.ret.session = session
                 /\ call.ret.verify_token_calls = 0
            ELSE IF verified
            THEN /\ call.ret.status = HTTP_OK
                 /\ call.ret.session.ok
                 /\ call.ret.session.username = call.credentials.token.sub
            ELSE /\ call.ret.status = 401
                 /\ call.ret.detail = "Authentication required"

C24_Witness ==
    /\ call.op = "get_current_user"
    /\ call.proxy
    /\ call.headers.user = <<"u">>
    /\ call.credentials.present
    /\ verify_token(call.credentials.token, call.t).ok
    /\ call.ret.status = HTTP_OK
    /\ call.ret.session.username = <<"u">>

====
